---- MODULE Spec2Model ----
(***************************************************************************)
(* Model of the Deriv Guardian data pipeline (src/pipeline):               *)
(*   parse_patterns.py   ring parser (two-state line machine)              *)
(*   transform.py        partner selection and the five linked tables      *)
(*   inject_patterns.py  fraud pattern injection and commission resync     *)
(*   export_kumo.py      the four export tables                            *)
(*   run_pipeline.py     stage order and the validation pass               *)
(*                                                                         *)
(* Strings are modelled by small integers (account numbers, ids) except    *)
(* the report's timestamp text, which stays a sequence of digits so that   *)
(* Python's lexical min/max is computed as such.  The empty string is      *)
(* EmptyStr.                                                               *)
(***************************************************************************)
EXTENDS Integers, Sequences, FiniteSets, TLC

VARIABLES
    lines,          \* parser: the report lines read so far (the file prefix)
    rings,          \* parser: the output list `rings`
    current_ring,   \* parser: the open accumulator, or None
    parse_pc,       \* parser: "reading" | "returned" | "raised"
    sel_args,       \* identify_partners: [trans_df, fraud_rings, top_n, str_hash]
    sel_result,     \* identify_partners: None or [partner_accounts, selected_fraud]
    str_hash,       \* pipeline: this process's string hash (orders set iteration)
    report,         \* pipeline input: the lines of the patterns report
    trans_df,       \* pipeline input: the ledger rows as load_transactions returns them
    top_n,          \* pipeline input: --top-partners
    raw_missing,    \* pipeline input: the raw data files that do not exist
    stage,          \* pipeline: position of main()
    fraud_rings,    \* file fraud_rings.json
    partners,       \* file partners.csv
    clients,        \* file clients.csv
    trades,         \* file trades.csv
    commissions,    \* file commissions.csv
    referrals,      \* file referrals.csv
    withdrawals,    \* file withdrawals.csv
    kumo_export,    \* the export directory: None or the four tables written to it
    inj_args,       \* injector call: the arguments of one pattern function
    inj_result,     \* injector call: None or what the function returned
    issues,         \* validate: None or the list of findings it returned
    load_args,      \* load_transactions call: [ledger, sample]
    load_result     \* load_transactions call: None or [df] it returned

parserVars == <<lines, rings, current_ring, parse_pc>>
selectVars == <<sel_args, sel_result>>
inputVars == <<str_hash, report, trans_df, top_n, raw_missing>>
fileVars == <<fraud_rings, partners, clients, trades, commissions, referrals, withdrawals>>
pipelineVars == <<inputVars, stage, fileVars, kumo_export>>
injectVars == <<inj_args, inj_result>>
loadVars == <<load_args, load_result>>
vars == <<parserVars, selectVars, pipelineVars, injectVars, issues, loadVars>>

\* ------------------------------------------------------------------ bounds
MaxLines == 4
MaxSelRows == 3
MaxCap == 5
MaxRows == 2
SampleEnumLimit == 3

\* ------------------------------------------------------------- value sets
EmptyStr == 0
None == [none |-> TRUE]
ReportAccounts == {1, 2}
\* timestamp text as digit strings: "10" and "9" (lexically "10" < "9")
ReportTimestamps == {<<1, 0>>, <<9>>}

\* Number of fields of a transaction record (len(_TX_FIELDS)).
TxFieldCount == 11

\* A report line after strip(), by what the parser can tell apart:
\*   blank, a BEGIN marker, an END marker, or any other text, described by
\*   the number of comma-separated parts and, for the fields the parser
\*   converts, whether float()/int() accept them.
BlankLine == [kind |-> "blank"]
BeginLine == [kind |-> "begin"]
EndLine == [kind |-> "end"]
OtherLine(nf, ts, fa, ta, amt, flag) ==
    [kind |-> "other", nf |-> nf, timestamp |-> ts, from_account |-> fa,
     to_account |-> ta, amount_numeric |-> amt, flag_numeric |-> flag]

WellFormedLines ==
    {OtherLine(TxFieldCount, ts, fa, ta, TRUE, TRUE) :
        ts \in ReportTimestamps, fa \in ReportAccounts, ta \in ReportAccounts}
WrongCountLines ==
    {OtherLine(nf, <<9>>, 1, 2, TRUE, TRUE) : nf \in {TxFieldCount - 1, TxFieldCount + 1}}
NonNumericLines ==
    {OtherLine(TxFieldCount, <<9>>, 1, 2, FALSE, TRUE),
     OtherLine(TxFieldCount, <<9>>, 1, 2, TRUE, FALSE)}
ReportLines ==
    {BlankLine, BeginLine, EndLine} \cup WellFormedLines \cup WrongCountLines
        \cup NonNumericLines

\* The variables of the components a specification does not run.
ParserIdle ==
    /\ lines = <<>>
    /\ rings = <<>>
    /\ current_ring = None
    /\ parse_pc = "idle"

SelectIdle ==
    /\ sel_args = None
    /\ sel_result = None

InjectIdle ==
    /\ inj_args = None
    /\ inj_result = None

ValidateIdle == issues = None

LoadIdle ==
    /\ load_args = None
    /\ load_result = None

PipelineIdle ==
    /\ str_hash = None
    /\ report = <<>>
    /\ trans_df = <<>>
    /\ top_n = 0
    /\ raw_missing = {}
    /\ kumo_export = None
    /\ stage = "idle"
    /\ fraud_rings = <<>>
    /\ partners = <<>>
    /\ clients = <<>>
    /\ trades = <<>>
    /\ commissions = <<>>
    /\ referrals = <<>>
    /\ withdrawals = <<>>

\* ---------------------------------------------------------------- helpers
RECURSIVE SortedSeq(_)
\* sorted(set): ascending list of a finite set of integers
SortedSeq(S) ==
    IF S = {} THEN <<>>
    ELSE LET m == CHOOSE x \in S : \A y \in S : x <= y
         IN <<m>> \o SortedSeq(S \ {m})

RECURSIVE LexLess(_, _)
\* Python's str < str on digit strings
LexLess(a, b) ==
    IF b = <<>> THEN FALSE
    ELSE IF a = <<>> THEN TRUE
    ELSE IF Head(a) < Head(b) THEN TRUE
    ELSE IF Head(a) > Head(b) THEN FALSE
    ELSE LexLess(Tail(a), Tail(b))

RECURSIVE MinStr(_)
\* min(list) over strings: the first smallest element
MinStr(s) ==
    IF Len(s) = 1 THEN s[1]
    ELSE LET m == MinStr(SubSeq(s, 1, Len(s) - 1))
         IN IF LexLess(s[Len(s)], m) THEN s[Len(s)] ELSE m

RECURSIVE MaxStr(_)
\* max(list) over strings: the first largest element
MaxStr(s) ==
    IF Len(s) = 1 THEN s[1]
    ELSE LET m == MaxStr(SubSeq(s, 1, Len(s) - 1))
         IN IF LexLess(m, s[Len(s)]) THEN s[Len(s)] ELSE m

\* ------------------------------------------------------------ ring parser
\* (mutant) the second length test dropped: 12 parts pass as a record
ParseTxLineAtLeast11(line) ==
    IF line.nf < TxFieldCount THEN [result |-> "none"]
    ELSE IF ~line.amount_numeric THEN [result |-> "raise"]
    ELSE IF ~line.flag_numeric THEN [result |-> "raise"]
    ELSE [result |-> "rec",
          rec |-> [timestamp |-> line.timestamp,
                   from_account |-> line.from_account,
                   to_account |-> line.to_account]]

\* _parse_tx_line: "none" (return None), "raise" (float()/int() raises
\* ValueError) or the record.
ParseTxLine(line) ==
    IF line.nf < TxFieldCount THEN [result |-> "none"]
    ELSE IF line.nf # TxFieldCount THEN [result |-> "none"]
    ELSE IF ~line.amount_numeric THEN [result |-> "raise"]
    ELSE IF ~line.flag_numeric THEN [result |-> "raise"]
    ELSE [result |-> "rec",
          rec |-> [timestamp |-> line.timestamp,
                   from_account |-> line.from_account,
                   to_account |-> line.to_account]]

\* The endpoints of the transactions in encounter order (sender, then receiver)
RECURSIVE Endpoints(_)
Endpoints(txs) ==
    IF txs = <<>> THEN <<>>
    ELSE <<Head(txs).from_account, Head(txs).to_account>> \o Endpoints(Tail(txs))

CountIn(seq, a) == Cardinality({i \in 1..Len(seq) : seq[i] = a})

SeqToSetOf(seq) == {seq[i] : i \in 1..Len(seq)}

\* (mutant) among the accounts with the largest count, the smallest one
FindHubSmallest(txs) ==
    LET ep == Endpoints(txs)
    IN IF ep = <<>> THEN EmptyStr
       ELSE CHOOSE a \in SeqToSetOf(ep) :
                /\ \A b \in SeqToSetOf(ep) : CountIn(ep, b) <= CountIn(ep, a)
                /\ \A b \in SeqToSetOf(ep) : CountIn(ep, b) = CountIn(ep, a) => a <= b

\* _find_hub: Counter.most_common(1): the largest count, the first inserted
\* key among equals; "" for no transactions.
FindHub(txs) ==
    LET ep == Endpoints(txs)
    IN IF ep = <<>> THEN EmptyStr
       ELSE LET best == CHOOSE i \in 1..Len(ep) :
                    /\ \A j \in 1..Len(ep) : CountIn(ep, ep[j]) <= CountIn(ep, ep[i])
                    /\ \A j \in 1..(i - 1) : CountIn(ep, ep[j]) < CountIn(ep, ep[i])
            IN ep[best]

\* (mutant) a BEGIN read inside-ring keeps the open accumulator
OpenRingKeepsOpen(rs, cur) ==
    IF cur # None THEN cur
    ELSE [ring_id |-> Len(rs), transactions |-> <<>>, accounts |-> {}]

\* the accumulator opened by a BEGIN marker (rs: the output list so far,
\* cur: the accumulator it replaces)
OpenRing(rs, cur) == [ring_id |-> Len(rs), transactions |-> <<>>, accounts |-> {}]

Timestamps(txs) == [i \in 1..Len(txs) |-> txs[i].timestamp]

\* (mutant) first and last timestamp in reading order instead of min and max
TemporalSpanFirstLast(txs) ==
    IF txs # <<>> THEN <<txs[1].timestamp, txs[Len(txs)].timestamp>> ELSE <<>>

\* temporal_span of the ring completed by an END marker
TemporalSpan(txs) ==
    IF txs # <<>> THEN <<MinStr(Timestamps(txs)), MaxStr(Timestamps(txs))>> ELSE <<>>

FinishRing(cur) ==
    [ring_id |-> cur.ring_id,
     transactions |-> cur.transactions,
     hub_account |-> FindHub(cur.transactions),
     accounts |-> SortedSeq(cur.accounts),
     num_transactions |-> Len(cur.transactions),
     temporal_span |-> TemporalSpan(cur.transactions)]

AddTx(cur, tx) ==
    [cur EXCEPT !.transactions = Append(@, tx),
                !.accounts = @ \cup {tx.from_account, tx.to_account}]

\* One iteration of the loop over the file's lines: the parser state
\* [rings, current_ring, pc] after `line`.
ParseLine(st, line) ==
    IF line.kind = "blank" THEN st
    ELSE IF line.kind = "begin"
    THEN [st EXCEPT !.current_ring = OpenRing(st.rings, st.current_ring)]
    ELSE IF line.kind = "end"
    THEN [st EXCEPT !.rings = IF st.current_ring # None
                              THEN Append(@, FinishRing(st.current_ring))
                              ELSE @,
                    !.current_ring = None]
    ELSE IF st.current_ring = None THEN st
    ELSE LET tx == ParseTxLine(line)
         IN IF tx.result = "rec"
            THEN [st EXCEPT !.current_ring = AddTx(@, tx.rec)]
            ELSE IF tx.result = "raise" THEN [st EXCEPT !.pc = "raised"]
            ELSE st

ParseStart == [rings |-> <<>>, current_ring |-> None, pc |-> "reading"]

RECURSIVE ParseFrom(_, _)
ParseFrom(st, ls) ==
    IF st.pc # "reading" THEN st
    ELSE IF ls = <<>> THEN [st EXCEPT !.pc = "returned"]
    ELSE ParseFrom(ParseLine(st, Head(ls)), Tail(ls))

\* parse_patterns on a whole report: [pc, rings]
ParsePatterns(ls) == ParseFrom(ParseStart, ls)

ParseInit ==
    /\ lines = <<>>
    /\ rings = ParseStart.rings
    /\ current_ring = ParseStart.current_ring
    /\ parse_pc = ParseStart.pc
    /\ SelectIdle
    /\ PipelineIdle
    /\ InjectIdle
    /\ ValidateIdle
    /\ LoadIdle

ParserState == [rings |-> rings, current_ring |-> current_ring, pc |-> parse_pc]

Read(line) ==
    /\ parse_pc = "reading"
    /\ Len(lines) < MaxLines
    /\ lines' = Append(lines, line)
    /\ LET st == ParseLine(ParserState, line)
       IN /\ rings' = st.rings
          /\ current_ring' = st.current_ring
          /\ parse_pc' = st.pc
    /\ UNCHANGED <<selectVars, loadVars, pipelineVars, injectVars, issues>>

ReadBlank == Read(BlankLine)

ReadBegin == Read(BeginLine)

ReadEnd == Read(EndLine)

ReadOther ==
    \E line \in WellFormedLines \cup WrongCountLines \cup NonNumericLines : Read(line)

EndOfFile ==
    /\ parse_pc = "reading"
    /\ parse_pc' = "returned"
    /\ UNCHANGED <<lines, rings, current_ring, selectVars, loadVars, pipelineVars, injectVars, issues>>

ParseNext == ReadBlank \/ ReadBegin \/ ReadEnd \/ ReadOther \/ EndOfFile

SpecParse == ParseInit /\ [][ParseNext]_vars

\* ------------------------------------------------- claims: the ring parser
\* The lines the loop has fully handled (a raising line is not).
Processed == IF parse_pc = "raised" THEN Len(lines) - 1 ELSE Len(lines)

\* A block is open just before line i: some earlier BEGIN with no END since.
BlockOpenBefore(i) ==
    \E j \in 1..(i - 1) :
        /\ lines[j].kind = "begin"
        /\ \A k \in (j + 1)..(i - 1) : lines[k].kind # "end"

\* The most recent BEGIN marker before line i.
LastBeginBefore(i) ==
    CHOOSE j \in 1..(i - 1) :
        /\ lines[j].kind = "begin"
        /\ \A k \in (j + 1)..(i - 1) : lines[k].kind # "begin"

\* END markers read while inside-ring, in reading order.
EmitPositions ==
    {i \in 1..Processed : lines[i].kind = "end" /\ BlockOpenBefore(i)}

\* Positions strictly between the most recent BEGIN before i and i that
\* split into exactly 11 fields.
ElevenFieldPositions(i) ==
    {k \in (LastBeginBefore(i) + 1)..(i - 1) :
        lines[k].kind = "other" /\ lines[k].nf = 11}

TxOfLine(k) ==
    [timestamp |-> lines[k].timestamp, from_account |-> lines[k].from_account,
     to_account |-> lines[k].to_account]

BlockTransactions(i) ==
    LET ps == SortedSeq(ElevenFieldPositions(i))
    IN [n \in 1..Len(ps) |-> TxOfLine(ps[n])]

\* C7: one ring per END marker read while inside-ring, in that order, built
\* only from the lines since the most recent BEGIN; an END read outside-ring
\* emits nothing, a BEGIN read inside-ring discards the open accumulator, a
\* block still open at end of input is not emitted, and each ring's ring_id
\* is its 0-based index in the output list.
C7_RingPerEndMarker ==
    LET ends == SortedSeq(EmitPositions)
    IN /\ Len(rings) = Len(ends)
       /\ \A k \in 1..Len(rings) :
            /\ rings[k].ring_id = k - 1
            /\ rings[k].transactions = BlockTransactions(ends[k])
       /\ (current_ring # None) <=> BlockOpenBefore(Processed + 1)
       /\ current_ring # None =>
            current_ring.transactions = BlockTransactions(Processed + 1)

\* a BEGIN was read inside-ring after a transaction line and the block then
\* closed: the emitted ring holds nothing of the discarded accumulator
C7_Witness ==
    /\ parse_pc = "returned"
    /\ Len(rings) = 1
    /\ rings[1].transactions = <<>>
    /\ \E i \in 1..Len(lines) :
        lines[i].kind = "other" /\ lines[i].nf = 11 /\ BlockOpenBefore(i)

\* two rings were emitted, the second with ring_id 1
C7_WitnessTwoRings ==
    /\ Len(rings) = 2
    /\ rings[2].ring_id = 1

\* C8: parsing never aborts because of a malformed line inside a ring block:
\* a line that is no well-formed transaction record (wrong field count, or 11
\* fields with a non-numeric amount or laundering flag) is discarded and
\* parsing continues.
C8_MalformedLineNeverAborts == parse_pc # "raised"

\* C9: each emitted ring's num_transactions is the number of lines of its
\* block that split into exactly 11 fields, and accounts is the sorted,
\* duplicate-free list of the endpoints of those lines.
C9_CountAndAccounts ==
    LET ends == SortedSeq(EmitPositions)
    IN \A k \in 1..Len(rings) :
        LET ps == ElevenFieldPositions(ends[k])
            eps == {lines[p].from_account : p \in ps}
                     \cup {lines[p].to_account : p \in ps}
            acc == rings[k].accounts
        IN /\ rings[k].num_transactions = Cardinality(ps)
           /\ {acc[i] : i \in 1..Len(acc)} = eps
           /\ Len(acc) = Cardinality(eps)
           /\ \A i \in 1..(Len(acc) - 1) : acc[i] < acc[i + 1]

\* a ring whose block held a wrong-count line and a transaction from account
\* 2 to account 1
C9_Witness ==
    /\ Len(rings) = 1
    /\ rings[1].num_transactions = 1
    /\ rings[1].accounts = <<1, 2>>
    /\ rings[1].transactions[1].from_account = 2
    /\ \E i \in 1..Len(lines) : lines[i].kind = "other" /\ lines[i].nf # 11

LexLeq(a, b) == a = b \/ LexLess(a, b)

\* C10: a ring with no valid transaction line is emitted with hub "" ,
\* num_transactions 0 and temporal_span []; otherwise temporal_span is
\* [lexically smallest, lexically largest] timestamp of its transactions.
C10_EmptyRingAndSpan ==
    /\ Len(rings) = Cardinality(EmitPositions)
    /\ \A k \in 1..Len(rings) :
        LET r == rings[k]
            ts == {r.transactions[i].timestamp : i \in 1..Len(r.transactions)}
        IN IF ElevenFieldPositions(SortedSeq(EmitPositions)[k]) = {}
           THEN /\ r.hub_account = EmptyStr
                /\ r.num_transactions = 0
                /\ r.temporal_span = <<>>
           ELSE /\ Len(r.temporal_span) = 2
                /\ r.temporal_span[1] \in ts
                /\ r.temporal_span[2] \in ts
                /\ \A t \in ts : LexLeq(r.temporal_span[1], t)
                /\ \A t \in ts : LexLeq(t, r.temporal_span[2])

\* a ring whose span is ["10", "9"] was emitted, its block reading "9" first
C10_Witness ==
    /\ Len(rings) = 1
    /\ rings[1].temporal_span = <<<<1, 0>>, <<9>>>>
    /\ rings[1].transactions[1].timestamp = <<9>>

\* a ring whose block held one wrong-count line and no transaction was emitted
C10_WitnessEmpty ==
    /\ Len(rings) = 1
    /\ rings[1].hub_account = EmptyStr
    /\ \E i \in 1..Len(lines) :
        lines[i].kind = "other" /\ lines[i].nf # 11 /\ BlockOpenBefore(i)

FirstAt(seq, a) == CHOOSE i \in 1..Len(seq) : seq[i] = a /\ \A j \in 1..(i - 1) : seq[j] # a

\* C11: for a ring with at least one transaction, hub_account has a maximal
\* number of appearances as sender or receiver over the ring's transactions,
\* among the accounts tied for the maximum it is the first one met when the
\* transactions are scanned in order (sender before receiver), and it is one
\* of the ring's accounts.
C11_HubIsFirstMostFrequent ==
    \A k \in 1..Len(rings) :
        rings[k].transactions # <<>> =>
            LET ep == Endpoints(rings[k].transactions)
                hub == rings[k].hub_account
            IN /\ hub \in SeqToSetOf(rings[k].accounts)
               /\ hub \in SeqToSetOf(ep)
               /\ \A a \in SeqToSetOf(ep) :
                     /\ CountIn(ep, a) <= CountIn(ep, hub)
                     /\ CountIn(ep, a) = CountIn(ep, hub) =>
                            FirstAt(ep, hub) <= FirstAt(ep, a)

\* a ring of two transactions in which accounts 1 and 2 tie and account 2,
\* met first, is the hub
C11_Witness ==
    /\ Len(rings) = 1
    /\ rings[1].num_transactions = 2
    /\ rings[1].hub_account = 2
    /\ CountIn(Endpoints(rings[1].transactions), 1)
          = CountIn(Endpoints(rings[1].transactions), 2)

\* ------------------------------------------------------ partner selection
\* A ledger row as load_transactions names its columns (amounts in cents,
\* timestamps in seconds).
LedgerRow(ts, s, r, amt, fl) ==
    [Timestamp |-> ts, sender_account |-> s, receiver_account |-> r,
     AmountPaid |-> amt, IsLaundering |-> fl]

\* The iteration order of a Python set of strings: by the process's hash.
RECURSIVE SetOrder(_, _)
SetOrder(S, h) ==
    IF S = {} THEN <<>>
    ELSE LET m == CHOOSE x \in S : \A y \in S : h[x] <= h[y]
         IN <<m>> \o SetOrder(S \ {m}, h)

SeqToSet(q) == {q[i] : i \in 1..Len(q)}

Min2(a, b) == IF a <= b THEN a ELSE b

\* index of in_degree: the distinct receiver accounts
Receivers(df) == {df[i].receiver_account : i \in 1..Len(df)}

\* in_degree: groupby("receiver_account")["sender_account"].nunique()
InDegree(df, r) ==
    Cardinality({df[i].sender_account : i \in {j \in 1..Len(df) : df[j].receiver_account = r}})

\* (mutant) head(n) in place of nlargest(n): the first n index labels
NFirstLabels(df, cands, n) ==
    LET byLabel == SetOrder(cands, [a \in cands |-> a])
    IN IF n <= 0 THEN <<>> ELSE SubSeq(byLabel, 1, Min2(n, Len(byLabel)))

RECURSIVE NLargest(_, _, _)
\* Series.nlargest(n) over the accounts `cands` of in_degree (index sorted
\* by groupby): largest first, the earlier index label among equals; nothing
\* for n <= 0.
NLargest(df, cands, n) ==
    IF n <= 0 \/ cands = {} THEN <<>>
    ELSE LET best == CHOOSE x \in cands : \A y \in cands :
                        \/ InDegree(df, x) > InDegree(df, y)
                        \/ InDegree(df, x) = InDegree(df, y) /\ x <= y
         IN <<best>> \o NLargest(df, cands \ {best}, n - 1)

FraudHubs(catalogue) == {catalogue[i].hub_account : i \in 1..Len(catalogue)}

ValidFraudHubs(df, catalogue) == FraudHubs(catalogue) \cap Receivers(df)

\* (mutant) the 20% factor dropped from the fraud quota
TargetFraudCountWholeCap(n) == n

\* int(top_n * 0.20)
TargetFraudCount(n) == (n * 20) \div 100

SelectedFraud(df, catalogue, n) ==
    LET cands == ValidFraudHubs(df, catalogue)
    IN NLargest(df, cands, Min2(TargetFraudCount(n), Cardinality(cands)))

\* (mutant) only the selected hubs are kept out of the legitimate candidates
LegitCandidatesSelectedOnly(df, catalogue, n) ==
    Receivers(df) \ SeqToSet(SelectedFraud(df, catalogue, n))

\* in_degree[~in_degree.index.isin(fraud_hubs)]
LegitCandidates(df, catalogue, n) == Receivers(df) \ FraudHubs(catalogue)

TargetLegitCount(df, catalogue, n) == n - Len(SelectedFraud(df, catalogue, n))

SelectedLegit(df, catalogue, n) ==
    NLargest(df, LegitCandidates(df, catalogue, n), TargetLegitCount(df, catalogue, n))

\* identify_partners: (pd.Index(list(set(fraud + legit))), set(fraud))
IdentifyPartners(df, catalogue, n, h) ==
    [partner_accounts |->
        SetOrder(SeqToSet(SelectedFraud(df, catalogue, n) \o SelectedLegit(df, catalogue, n)), h),
     selected_fraud |-> SeqToSet(SelectedFraud(df, catalogue, n))]

\* -- identify_partners on its own: inputs drawn from bounded sets
SelReceivers == {1, 2, 3}
SelSenders == {4, 5}
SelLedgerRows == {LedgerRow(60, s, r, 10000, FALSE) : s \in SelSenders, r \in SelReceivers}

RECURSIVE SeqsUpTo(_, _)
\* all sequences over S of length at most n
SeqsUpTo(S, n) ==
    IF n = 0 THEN {<<>>}
    ELSE LET shorter == SeqsUpTo(S, n - 1)
         IN shorter \cup {Append(q, x) : q \in {t \in shorter : Len(t) = n - 1}, x \in S}

\* a report with one block per hub of `hs`: a hub's block holds one
\* transaction from the hub to itself, the block of "" holds none
RECURSIVE ReportOfHubs(_)
ReportOfHubs(hs) ==
    IF hs = <<>> THEN <<>>
    ELSE (IF Head(hs) = EmptyStr THEN <<BeginLine, EndLine>>
          ELSE <<BeginLine,
                 OtherLine(TxFieldCount, <<9>>, Head(hs), Head(hs), TRUE, TRUE),
                 EndLine>>) \o ReportOfHubs(Tail(hs))

\* process string hashes: ascending or descending slot order
StrHashes == {[a \in 0..15 |-> a], [a \in 0..15 |-> 15 - a]}

SelectInit ==
    /\ sel_args \in
        {[trans_df |-> df, fraud_rings |-> ParsePatterns(ReportOfHubs(SortedSeq(hs))).rings,
          top_n |-> n, str_hash |-> h] :
            df \in SeqsUpTo(SelLedgerRows, MaxSelRows),
            hs \in SUBSET ({EmptyStr} \cup SelReceivers),
            n \in 0..MaxCap,
            h \in StrHashes}
    /\ sel_result = None
    /\ ParserIdle
    /\ PipelineIdle
    /\ InjectIdle
    /\ ValidateIdle
    /\ LoadIdle

CallIdentifyPartners ==
    /\ sel_result = None
    /\ sel_result' = IdentifyPartners(sel_args.trans_df, sel_args.fraud_rings,
                                      sel_args.top_n, sel_args.str_hash)
    /\ UNCHANGED <<sel_args, loadVars, parserVars, pipelineVars, injectVars, issues>>

SelectNext == CallIdentifyPartners

SpecSelect == SelectInit /\ [][SelectNext]_vars

\* ------------------------------------------- claims: partner selection
SelReturned == sel_result # None

SelPartnerSet == SeqToSet(sel_result.partner_accounts)

\* C5: the fraud-hub set has at most floor(cap x 0.20) accounts, the partner
\* set at most cap, and the fraud-hub set is a subset of the partner set.
C5_SelectionQuota ==
    SelReturned =>
        /\ 5 * Cardinality(sel_result.selected_fraud) <= sel_args.top_n
        /\ Len(sel_result.partner_accounts) <= sel_args.top_n
        /\ sel_result.selected_fraud \subseteq SelPartnerSet

\* more ring hubs among the receivers than the quota admits, one selected
C5_Witness ==
    /\ SelReturned
    /\ Cardinality(ValidFraudHubs(sel_args.trans_df, sel_args.fraud_rings)) >= 2
    /\ Cardinality(sel_result.selected_fraud) = 1
    /\ Len(sel_result.partner_accounts) = 2

\* C6 (as claimed): fewer than cap partner accounts are returned only when
\* the transaction set has fewer than cap distinct receivers; with at least
\* cap receivers exactly cap accounts are returned.
C6_FullCapWheneverEnoughReceivers ==
    SelReturned =>
        (Cardinality(Receivers(sel_args.trans_df)) >= sel_args.top_n
            => Len(sel_result.partner_accounts) = sel_args.top_n)

\* C6 (amended): fewer than cap accounts are returned exactly when the
\* receivers that are no ring hub are fewer than cap minus the number of
\* selected fraud hubs; otherwise exactly cap are returned.
C6_FullCapWheneverEnoughNonHubReceivers ==
    SelReturned =>
        LET nonhub == Receivers(sel_args.trans_df) \ FraudHubs(sel_args.fraud_rings)
            room == sel_args.top_n - Cardinality(sel_result.selected_fraud)
        IN /\ Len(sel_result.partner_accounts) <= sel_args.top_n
           /\ Cardinality(nonhub) >= room
                <=> Len(sel_result.partner_accounts) = sel_args.top_n
           /\ Cardinality(nonhub) < room
                => Len(sel_result.partner_accounts)
                     = Cardinality(sel_result.selected_fraud) + Cardinality(nonhub)

\* cap receivers exist, one of them an unselected ring hub: cap - 1 returned
C6_Witness ==
    /\ SelReturned
    /\ sel_args.top_n = 3
    /\ Cardinality(Receivers(sel_args.trans_df)) = 3
    /\ Cardinality(ValidFraudHubs(sel_args.trans_df, sel_args.fraud_rings)) = 1
    /\ Len(sel_result.partner_accounts) = 2

\* ---------------------------------------------------------- table builder
\* Money is in cents and commission amounts in hundredths of a cent, so that
\* volume x COMMISSION_RATE (0.05) is CommissionRatePct x volume exactly.
\* Timestamps are seconds.  Ids are the numbers of P_%04d, C_%06d, T_%07d,
\* CM_%07d and W_%05d.  A table is the list of its rows, which is also what
\* its CSV file holds.
CommissionRatePct == 5
CommissionDelay == 3600
Instruments == {"EURUSD", "GBPJPY"}
MaxPoolSize == 3
Directions == {"BUY", "SELL"}

RECURSIVE SelectRows(_, _)
\* df[mask]: the rows whose index is in `keep`, in order
SelectRows(df, keep) ==
    IF df = <<>> THEN <<>>
    ELSE SelectRows(SubSeq(df, 1, Len(df) - 1), keep)
            \o (IF Len(df) \in keep THEN <<df[Len(df)]>> ELSE <<>>)

RECURSIVE SumOver(_, _)
\* the sum of f[i] over the finite index set I
SumOver(f, I) ==
    IF I = {} THEN 0
    ELSE LET i == CHOOSE x \in I : TRUE IN f[i] + SumOver(f, I \ {i})

MinOf(S) == CHOOSE x \in S : \A y \in S : x <= y
MaxOf(S) == CHOOSE x \in S : \A y \in S : y <= x

RECURSIVE SortedPairs(_)
\* the groupby keys (a, b) in sorted order: by a, then by b
SortedPairs(S) ==
    IF S = {} THEN <<>>
    ELSE LET m == CHOOSE x \in S : \A y \in S :
                     x[1] < y[1] \/ (x[1] = y[1] /\ x[2] <= y[2])
         IN <<m>> \o SortedPairs(S \ {m})

\* filter_partner_transactions
FilterPartnerTransactions(df, accts) ==
    SelectRows(df, {i \in 1..Len(df) : df[i].receiver_account \in SeqToSet(accts)})

\* (mutant) only the hubs of the rings count as fraud accounts
AllFraudAccountsHubsOnly(catalogue) ==
    {catalogue[i].hub_account : i \in 1..Len(catalogue)}

\* _fraud_lookups: all_fraud_accounts
AllFraudAccounts(catalogue) ==
    UNION {SeqToSet(catalogue[i].accounts) : i \in 1..Len(catalogue)}

\* _fraud_lookups: account_ring_map.get(acc, [])
AccountRings(catalogue, acc) ==
    LET hit == SelectRows(catalogue,
                   {i \in 1..Len(catalogue) : acc \in SeqToSet(catalogue[i].accounts)})
    IN [i \in 1..Len(hit) |-> hit[i].ring_id]

RowsOf(df, r) == {i \in 1..Len(df) : df[i].receiver_account = r}

\* build_partners (the entity columns joined from the account master and the
\* columns derived from the two aggregates are left out)
BuildPartners(filtered, accts, catalogue) ==
    [i \in 1..Len(accts) |->
        [partner_id |-> i,
         account_number |-> accts[i],
         num_referred_clients |->
            Cardinality({filtered[j].sender_account : j \in RowsOf(filtered, accts[i])}),
         total_trade_volume |->
            SumOver([j \in 1..Len(filtered) |-> filtered[j].AmountPaid],
                    RowsOf(filtered, accts[i])),
         is_fraudulent |-> accts[i] \in AllFraudAccounts(catalogue),
         fraud_ring_ids |-> AccountRings(catalogue, accts[i])]]

\* (mutant) the receiver account number is used where the partner_id belongs
PartnerIdOfAccount(ptab, acc) == acc

\* partners_df.set_index("account_number")["partner_id"].to_dict(), applied
\* by Series.map: the partner_id of the last row with the account
PartnerIdOf(ptab, acc) ==
    LET hit == {i \in 1..Len(ptab) : ptab[i].account_number = acc}
    IN IF hit = {} THEN EmptyStr ELSE ptab[MaxOf(hit)].partner_id

\* build_clients: one row per (sender, receiver) group
BuildClients(filtered, ptab, catalogue) ==
    LET keys == SortedPairs({<<filtered[i].sender_account, filtered[i].receiver_account>> :
                                i \in 1..Len(filtered)})
        grp(k) == {i \in 1..Len(filtered) :
                     /\ filtered[i].sender_account = k[1]
                     /\ filtered[i].receiver_account = k[2]}
    IN [n \in 1..Len(keys) |->
          [client_id |-> n,
           account_number |-> keys[n][1],
           partner_id |-> PartnerIdOf(ptab, keys[n][2]),
           num_trades |-> Cardinality(grp(keys[n])),
           total_volume |->
              SumOver([j \in 1..Len(filtered) |-> filtered[j].AmountPaid], grp(keys[n])),
           is_in_fraud_ring |-> keys[n][1] \in AllFraudAccounts(catalogue)]]

\* client_lookup: (account_number, partner_id) -> client_id, "" when absent
ClientIdOf(ctab, acc, pid) ==
    LET hit == {i \in 1..Len(ctab) :
                  ctab[i].account_number = acc /\ ctab[i].partner_id = pid}
    IN IF hit = {} THEN EmptyStr ELSE ctab[MaxOf(hit)].client_id

\* build_trades: one trade per filtered transaction; instr and dir are the
\* draws of the run's generator for each row
BuildTrades(filtered, ctab, ptab, instr, dir) ==
    [i \in 1..Len(filtered) |->
        [trade_id |-> i,
         timestamp |-> filtered[i].Timestamp,
         client_id |-> ClientIdOf(ctab, filtered[i].sender_account,
                                  PartnerIdOf(ptab, filtered[i].receiver_account)),
         partner_id |-> PartnerIdOf(ptab, filtered[i].receiver_account),
         instrument |-> instr[i],
         direction |-> dir[i],
         trade_volume |-> filtered[i].AmountPaid,
         is_fraudulent |-> filtered[i].IsLaundering]]

\* build_commissions: one commission per trade
BuildCommissions(ttab) ==
    [i \in 1..Len(ttab) |->
        [commission_id |-> i,
         timestamp |-> ttab[i].timestamp + CommissionDelay,
         client_id |-> ttab[i].client_id,
         partner_id |-> ttab[i].partner_id,
         trade_id |-> ttab[i].trade_id,
         commission_amount |-> ttab[i].trade_volume * CommissionRatePct,
         is_fraudulent |-> ttab[i].is_fraudulent]]

\* build_referrals: groupby (partner_id, client_id) over the trades
BuildReferrals(ttab) ==
    LET keys == SortedPairs({<<ttab[i].partner_id, ttab[i].client_id>> : i \in 1..Len(ttab)})
        grp(k) == {i \in 1..Len(ttab) :
                     ttab[i].partner_id = k[1] /\ ttab[i].client_id = k[2]}
    IN [n \in 1..Len(keys) |->
          [partner_id |-> keys[n][1],
           client_id |-> keys[n][2],
           first_trade_date |-> MinOf({ttab[i].timestamp : i \in grp(keys[n])}),
           last_trade_date |-> MaxOf({ttab[i].timestamp : i \in grp(keys[n])}),
           num_trades |-> Cardinality(grp(keys[n])),
           total_volume |->
              SumOver([j \in 1..Len(ttab) |-> ttab[j].trade_volume], grp(keys[n])),
           total_commissions |->
              SumOver([j \in 1..Len(ttab) |-> ttab[j].trade_volume], grp(keys[n]))
                  * CommissionRatePct]]

\* The instrument pools a client's generator can draw: 1 to 3 instruments.
InstrumentPools ==
    {pl \in SUBSET Instruments : Cardinality(pl) >= 1 /\ Cardinality(pl) <= MaxPoolSize}

\* the partners table run_transform builds (no generator draw enters it)
TransformPartners(df, catalogue, n, h) ==
    LET sel == IdentifyPartners(df, catalogue, n, h)
    IN BuildPartners(FilterPartnerTransactions(df, sel.partner_accounts),
                     sel.partner_accounts, catalogue)

\* ---------------------------------------------------------- fraud injector
OppositeTradeProbabilityPct == 40
OppositeOffsets == {1, 59}
VolumeFactorsPct == {98, 102}
BonusAbuseDeposit == 5000
BonusAbuseWithdrawDelay == 86400
BonusMinClients == 10
BonusMaxClients == 15
SecondsPerDay == 86400
SecondsPerHour == 3600
SecondsPerMinute == 60
BaseDayChoices == {0, 29}
BaseHourChoices == {6, 21}
\* the base_time draws followed: the earliest and the latest
BaseTimeChoices ==
    {<<MinOf(BaseDayChoices), MinOf(BaseHourChoices)>>,
     <<MaxOf(BaseDayChoices), MaxOf(BaseHourChoices)>>}
OffsetMinuteChoices == {0, 59}
\* the order sort_values leaves equal timestamps in: by row index, up or down
TieOrders == {1, -1}

\* What the generator yields for one pair of Pattern A: the roll rejects the
\* pair, or accepts it and then an offset and a volume factor are drawn.
PairDrawsAnyRoll(prob) ==
    {[roll |-> FALSE, offset |-> 0, factor |-> 100]} \cup
    {[roll |-> TRUE, offset |-> o, factor |-> f] :
        o \in OppositeOffsets, f \in VolumeFactorsPct}

\* The same under probability prob (in percent): rng.random() is in [0, 1)
\* and the pair is rejected when it exceeds the probability.
PairDrawsAt(prob) ==
    (IF prob < 100 THEN {[roll |-> FALSE, offset |-> 0, factor |-> 100]} ELSE {}) \cup
    (IF prob >= 0
     THEN {[roll |-> TRUE, offset |-> o, factor |-> f] :
             o \in OppositeOffsets, f \in VolumeFactorsPct}
     ELSE {})

PairDraws == PairDrawsAt(OppositeTradeProbabilityPct)

\* partners[partners["is_fraudulent"]]["partner_id"].values
FraudPartnerIds(ptab) ==
    LET hit == SelectRows(ptab, {i \in 1..Len(ptab) : ptab[i].is_fraudulent})
    IN [i \in 1..Len(hit) |-> hit[i].partner_id]

RECURSIVE SortByTime(_, _, _)
\* trades.loc[p_indices].sort_values("timestamp").index.tolist()
SortByTime(ttab, I, tie) ==
    IF I = {} THEN <<>>
    ELSE LET m == CHOOSE x \in I : \A y \in I :
                     \/ ttab[x].timestamp < ttab[y].timestamp
                     \/ ttab[x].timestamp = ttab[y].timestamp /\ tie * x <= tie * y
         IN <<m>> \o SortByTime(ttab, I \ {m}, tie)

\* (mutant) range(0, len(indices) - 1) without the step of 2: every row is
\* paired with its successor
PartnerPairsSliding(ttab, pid, tie) ==
    LET idx == {i \in 1..Len(ttab) : ttab[i].partner_id = pid}
        ord == SortByTime(ttab, idx, tie)
    IN IF Cardinality(idx) < 2 THEN {}
       ELSE {<<ord[k], ord[k + 1]>> : k \in 1..(Len(ord) - 1)}

\* the pairs (idx1, idx2) the loop of one partner steps through
PartnerPairs(ttab, pid, tie) ==
    LET idx == {i \in 1..Len(ttab) : ttab[i].partner_id = pid}
        ord == SortByTime(ttab, idx, tie)
    IN IF Cardinality(idx) < 2 THEN {}
       ELSE {<<ord[2 * k - 1], ord[2 * k]>> : k \in 1..(Len(ord) \div 2)}

\* all pairs of all fraudulent partners
Pairs(ttab, ptab, tie) ==
    UNION {PartnerPairs(ttab, pid, tie) : pid \in SeqToSet(FraudPartnerIds(ptab))}

\* round(vol1 * factor, 2)
ScaleVolume(vol, pct) == (vol * pct + 50) \div 100

\* (mutant) the second direction without the "ensure they are truly
\* opposite" repair
SecondDirectionUnrepaired(dir1) == IF dir1 = "BUY" THEN "SELL" ELSE "BUY"

\* the direction written to the second trade of a pair
SecondDirection(dir1) ==
    LET d2 == IF dir1 = "BUY" THEN "SELL" ELSE "BUY"
    IN IF "BUY" = d2 THEN "SELL" ELSE d2

\* inject_opposite_trading; draw[idx1] is what the generator yields for the
\* pair led by row idx1
InjectOppositeTrading(ttab, ptab, tie, draw) ==
    LET prs == Pairs(ttab, ptab, tie)
        firsts == {pr[1] : pr \in {q \in prs : draw[q[1]].roll}}
        seconds == {pr[2] : pr \in {q \in prs : draw[q[1]].roll}}
        leader(i) == (CHOOSE pr \in prs : pr[2] = i)[1]
        base(i) == [trade_id |-> ttab[i].trade_id, timestamp |-> ttab[i].timestamp,
                    client_id |-> ttab[i].client_id, partner_id |-> ttab[i].partner_id,
                    instrument |-> ttab[i].instrument, direction |-> ttab[i].direction,
                    trade_volume |-> ttab[i].trade_volume,
                    is_fraudulent |-> ttab[i].is_fraudulent,
                    is_opposite_trade |-> FALSE]
    IN [i \in 1..Len(ttab) |->
          IF i \in firsts
          THEN [base(i) EXCEPT !.direction = "BUY",
                               !.is_opposite_trade = TRUE,
                               !.is_fraudulent = TRUE]
          ELSE IF i \in seconds
          THEN [base(i) EXCEPT
                  !.timestamp = ttab[leader(i)].timestamp + draw[leader(i)].offset,
                  !.instrument = ttab[leader(i)].instrument,
                  !.direction = SecondDirection(ttab[leader(i)].direction),
                  !.trade_volume = ScaleVolume(ttab[leader(i)].trade_volume,
                                               draw[leader(i)].factor),
                  !.is_opposite_trade = TRUE,
                  !.is_fraudulent = TRUE]
          ELSE base(i)]

\* (mutant) int(len(fraud_partners) * 0.3) without the floor of one partner
NumAbusePartnersUnfloored(nfraud) == (nfraud * 3) \div 10

\* max(1, int(len(fraud_partners) * 0.3))
NumAbusePartners(nfraud) ==
    IF (nfraud * 3) \div 10 >= 1 THEN (nfraud * 3) \div 10 ELSE 1

RECURSIVE OrderedSamples(_, _)
\* the orders a generator can draw n distinct elements of S in
OrderedSamples(S, n) ==
    IF n = 0 THEN {<<>>}
    ELSE UNION {{<<x>> \o t : t \in OrderedSamples(S \ {x}, n - 1)} : x \in S}

\* rng.choice(unique_clients, size=n, replace=False): every ordered sample of
\* a short list; of a longer list the first n in list order and the last n
\* in reverse order
ClientSamples(uniq, n) ==
    IF Len(uniq) <= SampleEnumLimit THEN OrderedSamples(SeqToSet(uniq), n)
    ELSE {SubSeq(uniq, 1, n), [k \in 1..n |-> uniq[Len(uniq) + 1 - k]]}

\* the offset_mins drawn for n deposits: every combination for a short list;
\* for a longer one all least, all greatest, and alternating
OffsetDraws(n) ==
    IF n <= SampleEnumLimit THEN [1..n -> OffsetMinuteChoices]
    ELSE {[k \in 1..n |-> MinOf(OffsetMinuteChoices)],
          [k \in 1..n |-> MaxOf(OffsetMinuteChoices)],
          [k \in 1..n |-> IF k % 2 = 1 THEN MinOf(OffsetMinuteChoices)
                                        ELSE MaxOf(OffsetMinuteChoices)]}

\* (mutant) list(clients): a client is listed once per trade
UniqueClientsWithRepeats(ttab, pid, h) ==
    LET rows == SelectRows(ttab, {j \in 1..Len(ttab) : ttab[j].partner_id = pid})
    IN [k \in 1..Len(rows) |-> rows[k].client_id]

\* list(set(clients)) for the client ids of partner pid's trades
UniqueClients(ttab, pid, h) ==
    SetOrder({ttab[i].client_id : i \in {j \in 1..Len(ttab) : ttab[j].partner_id = pid}}, h)

\* the rows appended for one partner: the deposit trades and withdrawals of
\* the clients `selected`, with ids continuing from `counter` / `wcounter`
\* (mutant) the appended deposit trade is not labelled fraudulent
BonusTradeUnlabelled(tid, ts, cid, pid) ==
    [trade_id |-> tid, timestamp |-> ts, client_id |-> cid, partner_id |-> pid,
     instrument |-> "EURUSD", direction |-> "BUY", trade_volume |-> BonusAbuseDeposit,
     is_fraudulent |-> FALSE, is_opposite_trade |-> FALSE, is_bonus_abuse |-> TRUE]

BonusTrade(tid, ts, cid, pid) ==
    [trade_id |-> tid, timestamp |-> ts, client_id |-> cid, partner_id |-> pid,
     instrument |-> "EURUSD", direction |-> "BUY", trade_volume |-> BonusAbuseDeposit,
     is_fraudulent |-> TRUE, is_opposite_trade |-> FALSE, is_bonus_abuse |-> TRUE]

\* (mutant) the withdrawal is stamped with the deposit's own time
BonusWithdrawalAtDeposit(wid, ts, cid, pid) ==
    [withdrawal_id |-> wid, timestamp |-> ts,
     client_id |-> cid, partner_id |-> pid, amount |-> BonusAbuseDeposit,
     is_bonus_abuse |-> TRUE]

BonusWithdrawal(wid, ts, cid, pid) ==
    [withdrawal_id |-> wid, timestamp |-> ts + BonusAbuseWithdrawDelay,
     client_id |-> cid, partner_id |-> pid, amount |-> BonusAbuseDeposit,
     is_bonus_abuse |-> TRUE]

\* base_time + offset of one deposit
DepositTime(day, hour, minute) ==
    day * SecondsPerDay + hour * SecondsPerHour + minute * SecondsPerMinute

RECURSIVE BonusOutcomes(_, _, _, _, _)
\* The (new_trades, withdrawals) lists inject_bonus_abuse can end its loop
\* over `sample` with, from the lists `acc` built so far.
BonusOutcomes(ttab, h, sample, acc, counter) ==
    IF sample = <<>> THEN {acc}
    ELSE LET pid == Head(sample)
             uniq == UniqueClients(ttab, pid, h)
         IN IF Len(uniq) < 2
            THEN BonusOutcomes(ttab, h, Tail(sample), acc, counter)
            ELSE UNION {
                   UNION {
                     BonusOutcomes(ttab, h, Tail(sample),
                        [new_trades |-> acc.new_trades \o
                            [k \in 1..Len(sel) |->
                                BonusTrade(counter + Len(acc.new_trades) + k,
                                           DepositTime(bt[1], bt[2], offs[k]),
                                           sel[k], pid)],
                         withdrawals |-> acc.withdrawals \o
                            [k \in 1..Len(sel) |->
                                BonusWithdrawal(Len(acc.withdrawals) + k,
                                                DepositTime(bt[1], bt[2], offs[k]),
                                                sel[k], pid)]],
                        counter) :
                     bt \in BaseTimeChoices,
                     offs \in OffsetDraws(Len(sel))} :
                   sel \in UNION {ClientSamples(uniq, n_clients) :
                                    n_clients \in {Min2(n, Len(uniq)) :
                                                     n \in BonusMinClients..BonusMaxClients}}}

\* fraud_partners.sample(n=n_abuse): the orders the sampled partners can
\* come in, `fraud` being the ids of the fraudulent partners
AbusePartnerSamples(fraud) ==
    OrderedSamples(SeqToSet(fraud), NumAbusePartners(Len(fraud)))

\* (mutant) the counter of new trade ids starts at zero
TradeCounterZero(ttab) == 0

\* trade_counter = len(trades): new trade ids continue after it
TradeCounter(ttab) == Len(ttab)

\* inject_bonus_abuse: the (trades, withdrawals) it can return
InjectBonusAbuse(ttab, ptab, h) ==
    LET fraud == FraudPartnerIds(ptab)
        marked == [i \in 1..Len(ttab) |->
                     [trade_id |-> ttab[i].trade_id, timestamp |-> ttab[i].timestamp,
                      client_id |-> ttab[i].client_id, partner_id |-> ttab[i].partner_id,
                      instrument |-> ttab[i].instrument, direction |-> ttab[i].direction,
                      trade_volume |-> ttab[i].trade_volume,
                      is_fraudulent |-> ttab[i].is_fraudulent,
                      is_opposite_trade |-> ttab[i].is_opposite_trade,
                      is_bonus_abuse |-> FALSE]]
    IN IF fraud = <<>> THEN {[trades |-> ttab, withdrawals |-> <<>>]}
       ELSE {[trades |-> marked \o out.new_trades, withdrawals |-> out.withdrawals] :
               out \in UNION {
                  BonusOutcomes(ttab, h, sample,
                                [new_trades |-> <<>>, withdrawals |-> <<>>],
                                TradeCounter(ttab)) :
                  sample \in AbusePartnerSamples(fraud)}}

\* trades.set_index("trade_id")["trade_volume"].to_dict(): the volume of the
\* last row with the id
TradeVolumeOf(ttab, tid) ==
    ttab[MaxOf({i \in 1..Len(ttab) : ttab[i].trade_id = tid})].trade_volume

\* (mutant) a commission row is added for every trade that has none
ResyncCommissionsMirroring(ctab, ttab) ==
    LET bare == SelectRows(ttab, {j \in 1..Len(ttab) :
                    \A i \in 1..Len(ctab) : ctab[i].trade_id # ttab[j].trade_id})
    IN ctab \o [k \in 1..Len(bare) |->
                  [commission_id |-> Len(ctab) + k,
                   timestamp |-> bare[k].timestamp + CommissionDelay,
                   client_id |-> bare[k].client_id,
                   partner_id |-> bare[k].partner_id,
                   trade_id |-> bare[k].trade_id,
                   commission_amount |-> bare[k].trade_volume * CommissionRatePct,
                   is_fraudulent |-> bare[k].is_fraudulent]]

\* (mutant) the commission amounts are left as built
ResyncCommissionsSkipped(ctab, ttab) == ctab

\* run_injection: "Resync commissions with modified trade volumes"
ResyncCommissions(ctab, ttab) ==
    [i \in 1..Len(ctab) |->
        IF \E j \in 1..Len(ttab) : ttab[j].trade_id = ctab[i].trade_id
        THEN [ctab[i] EXCEPT
                !.commission_amount =
                    TradeVolumeOf(ttab, ctab[i].trade_id) * CommissionRatePct]
        ELSE ctab[i]]

\* ------------------------------------------------------------- validate
\* what pd.read_csv yields for an empty field
NaN == -1
ReadField(v) == IF v = EmptyStr THEN NaN ELSE v

\* 0.01 in units of commission_amount
MismatchTolerance == 100

Column(tab, col) == {ReadField(tab[i][col]) : i \in 1..Len(tab)}

\* (mutant) check 1 finds nothing
CommissionPartnerOrphansNone(ptab, commtab) == {}

\* check 1: comm_partners - known_partners
CommissionPartnerOrphans(ptab, commtab) ==
    Column(commtab, "partner_id") \ Column(ptab, "partner_id")

\* check 2: trade_clients - known_clients, then discard("")
TradeClientOrphans(cltab, ttab) ==
    (Column(ttab, "client_id") \ Column(cltab, "client_id")) \ {EmptyStr}

\* check 3: partners["is_fraudulent"].sum()
NumFraudPartners(ptab) == Cardinality({i \in 1..Len(ptab) : ptab[i].is_fraudulent})

AbsDiff(a, b) == IF a >= b THEN a - b ELSE b - a

\* check 5: the rows of the inner merge on trade_id whose amount is off by
\* more than the tolerance
CommissionMismatches(ttab, commtab) ==
    {pr \in (1..Len(commtab)) \X (1..Len(ttab)) :
        /\ commtab[pr[1]].trade_id = ttab[pr[2]].trade_id
        /\ AbsDiff(commtab[pr[1]].commission_amount,
                   ttab[pr[2]].trade_volume * CommissionRatePct) > MismatchTolerance}

\* check 6: df[pk].isna().sum()
NumNaN(tab, pk) == Cardinality({i \in 1..Len(tab) : ReadField(tab[i][pk]) = NaN})

Finding(cond, f) == IF cond THEN <<f>> ELSE <<>>

\* validate: the list `issues` it returns.  A finding is modelled by its
\* kind and the ids or the count its text holds.
Validate(ptab, cltab, ttab, commtab) ==
    Finding(CommissionPartnerOrphans(ptab, commtab) # {},
            [kind |-> "orphan_partner_ids", table |-> "commissions",
             ids |-> CommissionPartnerOrphans(ptab, commtab)])
    \o Finding(TradeClientOrphans(cltab, ttab) # {},
            [kind |-> "orphan_client_count", table |-> "trades",
             count |-> Cardinality(TradeClientOrphans(cltab, ttab))])
    \o Finding(NumFraudPartners(ptab) = 0, [kind |-> "no_fraudulent_partners"])
    \o Finding(CommissionMismatches(ttab, commtab) # {},
            [kind |-> "commission_mismatch",
             count |-> Cardinality(CommissionMismatches(ttab, commtab))])
    \o Finding(NumNaN(ptab, "partner_id") > 0,
            [kind |-> "nan_keys", table |-> "partners",
             count |-> NumNaN(ptab, "partner_id")])
    \o Finding(NumNaN(cltab, "client_id") > 0,
            [kind |-> "nan_keys", table |-> "clients",
             count |-> NumNaN(cltab, "client_id")])
    \o Finding(NumNaN(ttab, "trade_id") > 0,
            [kind |-> "nan_keys", table |-> "trades",
             count |-> NumNaN(ttab, "trade_id")])
    \o Finding(NumNaN(commtab, "commission_id") > 0,
            [kind |-> "nan_keys", table |-> "commissions",
             count |-> NumNaN(commtab, "commission_id")])

\* ------------------------------------------------------- the pipeline run
PipelineReceivers == {1, 2}
PipelineSenders == {3, 4}
LedgerTimes == {60, 120}
LedgerAmounts == {10000}
PipelineLedgerRows ==
    {LedgerRow(ts, sa, ra, amt, fl) :
        ts \in LedgerTimes, sa \in PipelineSenders, ra \in PipelineReceivers,
        amt \in LedgerAmounts, fl \in BOOLEAN}

\* reports of no ring or of one ring with one transaction
PipelineReports ==
    {<<>>} \cup
    {<<BeginLine, OtherLine(TxFieldCount, <<9>>, fa, ta, TRUE, TRUE), EndLine>> :
        fa \in {1, 3}, ta \in {1, 2, 3}}

PipelineCaps == {2, 5}

\* the raw files main() reads: the patterns report and the ledger
RawFiles == {"patterns", "transactions"}

\* a file that does not exist has no content
Init ==
    /\ str_hash \in StrHashes
    /\ raw_missing \in SUBSET RawFiles
    /\ report \in IF "patterns" \in raw_missing THEN {<<>>} ELSE PipelineReports
    /\ trans_df \in IF "transactions" \in raw_missing THEN {<<>>}
                    ELSE SeqsUpTo(PipelineLedgerRows, MaxRows)
    /\ top_n \in PipelineCaps
    /\ kumo_export = None
    /\ stage = "start"
    /\ fraud_rings = <<>>
    /\ partners = <<>>
    /\ clients = <<>>
    /\ trades = <<>>
    /\ commissions = <<>>
    /\ referrals = <<>>
    /\ withdrawals = <<>>
    /\ ParserIdle
    /\ SelectIdle
    /\ InjectIdle
    /\ ValidateIdle
    /\ LoadIdle

\* STEP 1: parse_patterns and save_fraud_rings.  open() of a report that
\* does not exist raises FileNotFoundError, which main() does not catch.
StageParse ==
    /\ stage = "start"
    /\ IF "patterns" \in raw_missing
       THEN /\ stage' = "failed"
            /\ UNCHANGED fraud_rings
       ELSE LET res == ParsePatterns(report)
            IN /\ stage' = IF res.pc = "raised" THEN "failed" ELSE "parsed"
               /\ fraud_rings' = IF res.pc = "raised" THEN fraud_rings ELSE res.rings
    /\ UNCHANGED <<inputVars, partners, clients, trades, commissions, referrals,
                   withdrawals, kumo_export, parserVars, selectVars, loadVars, injectVars, issues>>

\* STEP 2: run_transform (each table is bound once it is built; pool, instr
\* and dir are the draws of the per-client generators and of the run's)
TransformTables ==
    /\ "transactions" \notin raw_missing
    /\ \E sel \in {IdentifyPartners(trans_df, fraud_rings, top_n, str_hash)} :
       \E filtered \in {FilterPartnerTransactions(trans_df, sel.partner_accounts)} :
       \E ptab \in {BuildPartners(filtered, sel.partner_accounts, fraud_rings)} :
       \E ctab \in {BuildClients(filtered, ptab, fraud_rings)} :
       \E pool \in [{ctab[i].client_id : i \in 1..Len(ctab)} -> InstrumentPools] :
       \E instr \in [1..Len(filtered) -> Instruments] :
       \E dir \in [1..Len(filtered) -> Directions] :
       \E ttab \in {BuildTrades(filtered, ctab, ptab, instr, dir)} :
            /\ \A i \in 1..Len(ttab) : ttab[i].instrument \in pool[ttab[i].client_id]
            /\ partners' = ptab
            /\ clients' = ctab
            /\ trades' = ttab
            /\ commissions' = BuildCommissions(ttab)
            /\ referrals' = BuildReferrals(ttab)
    /\ stage' = "transformed"

\* (mutant) a ledger that does not exist is taken for an empty one and the
\* run goes on
TransformSkipsMissingLedger ==
    /\ "transactions" \in raw_missing
    /\ stage' = "transformed"
    /\ UNCHANGED <<partners, clients, trades, commissions, referrals>>

\* load_transactions: pd.read_csv of a ledger that does not exist raises
\* FileNotFoundError before any table is built or saved
TransformRaises ==
    /\ "transactions" \in raw_missing
    /\ stage' = "failed"
    /\ UNCHANGED <<partners, clients, trades, commissions, referrals>>

StageTransform ==
    /\ stage = "parsed"
    /\ (TransformTables \/ TransformRaises)
    /\ UNCHANGED <<inputVars, fraud_rings, withdrawals, kumo_export, parserVars,
                   selectVars, loadVars, injectVars, issues>>

\* STEP 3: run_injection.  With no fraudulent partner inject_bonus_abuse
\* returns the trades without an is_bonus_abuse column and
\* trades["is_bonus_abuse"].sum() raises KeyError before anything is saved.
StageInject ==
    /\ stage = "transformed"
    /\ IF FraudPartnerIds(partners) = <<>>
       THEN /\ stage' = "failed"
            /\ UNCHANGED <<trades, withdrawals, commissions>>
       ELSE \E tie \in TieOrders :
            \E draw \in [{pr[1] : pr \in Pairs(trades, partners, tie)} -> PairDraws] :
            \E opp \in {InjectOppositeTrading(trades, partners, tie, draw)} :
            \E res \in InjectBonusAbuse(opp, partners, str_hash) :
                /\ trades' = res.trades
                /\ withdrawals' = res.withdrawals
                /\ commissions' = ResyncCommissions(commissions, res.trades)
                /\ stage' = "injected"
    /\ UNCHANGED <<inputVars, fraud_rings, partners, clients, referrals,
                   kumo_export, parserVars, selectVars, loadVars, injectVars, issues>>

\* export_accounts: the partner rows, then the client rows, under one schema
ExportAccounts(ptab, ctab) ==
    [i \in 1..Len(ptab) |->
        [account_id |-> ptab[i].partner_id, role |-> "PARTNER",
         account_number |-> ptab[i].account_number,
         is_fraudulent |-> ptab[i].is_fraudulent]] \o
    [i \in 1..Len(ctab) |->
        [account_id |-> ctab[i].client_id, role |-> "CLIENT",
         account_number |-> ctab[i].account_number,
         is_fraudulent |-> ctab[i].is_in_fraud_ring]]

\* export_trades
ExportTrades(ttab) ==
    [i \in 1..Len(ttab) |->
        [trade_id |-> ttab[i].trade_id, timestamp |-> ttab[i].timestamp,
         client_account_id |-> ttab[i].client_id,
         instrument |-> ttab[i].instrument, direction |-> ttab[i].direction,
         trade_volume |-> ttab[i].trade_volume,
         is_opposite_trade |-> ttab[i].is_opposite_trade,
         is_bonus_abuse |-> ttab[i].is_bonus_abuse]]

\* export_commissions
ExportCommissions(commtab) ==
    [i \in 1..Len(commtab) |->
        [commission_id |-> commtab[i].commission_id,
         timestamp |-> commtab[i].timestamp,
         partner_account_id |-> commtab[i].partner_id,
         client_account_id |-> commtab[i].client_id,
         commission_amount |-> commtab[i].commission_amount]]

\* export_referrals
ExportReferrals(rtab) ==
    [i \in 1..Len(rtab) |->
        [partner_account_id |-> rtab[i].partner_id,
         client_account_id |-> rtab[i].client_id,
         referral_date |-> rtab[i].first_trade_date]]

\* (mutant) run_export saves the accounts table over partners.csv
StageExportOverPartners ==
    /\ stage = "injected"
    /\ partners' = ExportAccounts(partners, clients)
    /\ kumo_export' = [accounts |-> ExportAccounts(partners, clients),
                       trades |-> ExportTrades(trades),
                       commissions |-> ExportCommissions(commissions),
                       referrals |-> ExportReferrals(referrals)]
    /\ stage' = "exported"
    /\ UNCHANGED <<inputVars, fraud_rings, clients, trades, commissions, referrals,
                   withdrawals, parserVars, selectVars, loadVars, injectVars, issues>>

\* STEP 4: run_export reads the transformed tables and writes the export
\* directory only
StageExport ==
    /\ stage = "injected"
    /\ kumo_export' = [accounts |-> ExportAccounts(partners, clients),
                       trades |-> ExportTrades(trades),
                       commissions |-> ExportCommissions(commissions),
                       referrals |-> ExportReferrals(referrals)]
    /\ stage' = "exported"
    /\ UNCHANGED <<inputVars, fileVars, parserVars, selectVars, loadVars, injectVars, issues>>

\* STEP 5: validate reads the transformed tables and returns its findings
StageValidate ==
    /\ stage = "exported"
    /\ issues' = [findings |-> Validate(partners, clients, trades, commissions)]
    /\ stage' = "validated"
    /\ UNCHANGED <<inputVars, fileVars, kumo_export, parserVars, selectVars, loadVars, injectVars>>

Next == StageParse \/ StageTransform \/ StageInject \/ StageExport \/ StageValidate

Spec == Init /\ [][Next]_vars

\* ---------------------------------------------------- claims on the pipeline
Built == stage \in {"transformed", "injected"}

\* C1: for every Commission row and the Trade row with the same trade_id,
\* commission_amount equals trade_volume x commission_rate, right after the
\* tables are built and after run_injection has rewritten trade volumes and
\* resynchronised the commissions.
C1_CommissionInvariant ==
    Built =>
        \A i \in 1..Len(commissions) : \A j \in 1..Len(trades) :
            commissions[i].trade_id = trades[j].trade_id =>
                commissions[i].commission_amount =
                    trades[j].trade_volume * CommissionRatePct

\* a run in which Pattern A rewrote the volume of a trade that has a commission
C1_Witness ==
    /\ stage = "injected"
    /\ \E i \in 1..Len(commissions) : \E j \in 1..Len(trades) :
          /\ commissions[i].trade_id = trades[j].trade_id
          /\ trades[j].is_opposite_trade
          /\ trades[j].trade_volume \notin LedgerAmounts

ReferralFacts(rtab) ==
    {<<rtab[i].partner_id, rtab[i].client_id, rtab[i].num_trades,
       rtab[i].total_volume, rtab[i].first_trade_date, rtab[i].last_trade_date>> :
        i \in 1..Len(rtab)}

\* C2: after run_injection the persisted Referral table is the group-by of
\* the post-injection Trade table: one row per (partner_id, client_id) pair of
\* Trade, with the count, sum, min and max over that pair's trades.
C2_ReferralsAreGroupByOfTrades ==
    stage = "injected" => ReferralFacts(referrals) = ReferralFacts(BuildReferrals(trades))

\* C3: after table construction and after injection every Commission row's
\* trade_id matches exactly one Trade row, every Trade row's client_id is the
\* client_id of a Client row and its partner_id the partner_id of a Partner
\* row, the appended bonus-abuse trades included.
C3_ReferentialIntegrity ==
    Built =>
        /\ \A i \in 1..Len(commissions) :
              Cardinality({j \in 1..Len(trades) :
                              trades[j].trade_id = commissions[i].trade_id}) = 1
        /\ \A j \in 1..Len(trades) :
              /\ \E c \in 1..Len(clients) : clients[c].client_id = trades[j].client_id
              /\ \E p \in 1..Len(partners) : partners[p].partner_id = trades[j].partner_id

\* a run in which Pattern B appended deposit trades to the built ones
C3_Witness ==
    /\ stage = "injected"
    /\ Len(commissions) >= 2
    /\ \E j \in 1..Len(trades) :
          /\ trades[j].is_bonus_abuse
          /\ \E c \in 1..Len(clients) : clients[c].client_id = trades[j].client_id

\* C4: a second run on the same inputs with the same seed, in a process whose
\* string hash differs, builds the same Partner table row for row.
C4_PartnersSameInEveryProcess ==
    Built =>
        \A h \in StrHashes :
            TransformPartners(trans_df, fraud_rings, top_n, h) = partners
\* C12: for every Partner row, is_fraudulent is true exactly when its
\* account_number is in the account set of at least one ring of the catalogue,
\* whichever quota selected the account, and injection leaves it so.
C12_PartnerFraudFlag ==
    Built =>
        \A p \in 1..Len(partners) :
            partners[p].is_fraudulent <=>
                \E k \in 1..Len(fraud_rings) :
                    \E a \in 1..Len(fraud_rings[k].accounts) :
                        fraud_rings[k].accounts[a] = partners[p].account_number

\* an injected run with a partner that is a ring member but no ring's hub, so
\* that it came in through the legitimate quota, and is flagged fraudulent
C12_Witness ==
    /\ stage = "injected"
    /\ \E p \in 1..Len(partners) :
          /\ partners[p].is_fraudulent
          /\ \A k \in 1..Len(fraud_rings) :
                fraud_rings[k].hub_account # partners[p].account_number

\* C16: trade_id is unique in Trade after build_trades and after injection;
\* the trades Pattern B appends get ids above every id present before
\* injection, all different, continuing the sequence from the largest id.
C16_TradeIdsUniqueAndContinued ==
    Built =>
        /\ \A i, j \in 1..Len(trades) :
              trades[i].trade_id = trades[j].trade_id => i = j
        /\ stage = "injected" =>
              LET old == {i \in 1..Len(trades) : ~trades[i].is_bonus_abuse}
                  new == {i \in 1..Len(trades) : trades[i].is_bonus_abuse}
              IN \A i \in new :
                    /\ \A j \in old : trades[j].trade_id < trades[i].trade_id
                    /\ trades[i].trade_id =
                          MaxOf({trades[j].trade_id : j \in old})
                              + Cardinality({k \in new : k <= i})

\* an injected run that appended two bonus-abuse trades
C16_Witness ==
    /\ stage = "injected"
    /\ Cardinality({i \in 1..Len(trades) : trades[i].is_bonus_abuse}) = 2
    /\ \E i \in 1..Len(trades) : ~trades[i].is_bonus_abuse

\* C17: run_injection leaves the set of Commission rows as it was (same
\* commission_id / trade_id rows), no Commission row refers to a bonus-abuse
\* trade, and a row whose trade kept its volume keeps its commission_amount.
C17_CommissionRowsKept ==
    [][(stage = "transformed" /\ stage' = "injected") =>
          /\ Len(commissions') = Len(commissions)
          /\ \A i \in 1..Len(commissions) :
                /\ commissions'[i].commission_id = commissions[i].commission_id
                /\ commissions'[i].trade_id = commissions[i].trade_id
                /\ \A j \in 1..Len(trades') :
                      trades'[j].is_bonus_abuse =>
                          trades'[j].trade_id # commissions'[i].trade_id
                /\ \A j \in 1..Len(trades) :
                      (/\ trades[j].trade_id = commissions[i].trade_id
                       /\ trades'[j].trade_volume = trades[j].trade_volume) =>
                          commissions'[i].commission_amount
                              = commissions[i].commission_amount]_vars

\* an injected run with appended deposits, a rewritten volume and a kept one
C17_Witness ==
    /\ stage = "injected"
    /\ \E j \in 1..Len(trades) : trades[j].is_bonus_abuse
    /\ \E i, k \in 1..Len(commissions) :
          /\ commissions[i].commission_amount \notin
                {a * CommissionRatePct : a \in LedgerAmounts}
          /\ commissions[k].commission_amount \in
                {a * CommissionRatePct : a \in LedgerAmounts}

\* ------------------------------------------- inject_opposite_trading alone
MaxOppRows == 4
\* the timestamps of rows 1..4: ascending, shuffled, and with equal ones
OppTimePatterns ==
    {[i \in 1..MaxOppRows |-> 100 * i],
     [i \in 1..MaxOppRows |-> 100 * ((3 * i) % (MaxOppRows + 1))],
     [i \in 1..MaxOppRows |-> IF i = 3 THEN 200 ELSE 100]}
OppPartnerIds == {1, 2}
OppStyles == {<<"EURUSD", "BUY">>, <<"GBPJPY", "SELL">>}
OppProbabilities == {OppositeTradeProbabilityPct, 100}

\* built trades tables of up to MaxOppRows rows (ids 1..n as build_trades
\* numbers them, one client per row, volume 100.00 x row number)
OppTradeTables ==
    UNION {{[i \in 1..n |->
                [trade_id |-> i, timestamp |-> pat[i], client_id |-> i,
                 partner_id |-> pid[i], instrument |-> sty[i][1],
                 direction |-> sty[i][2], trade_volume |-> 10000 * i,
                 is_fraudulent |-> FALSE]] :
              pat \in OppTimePatterns, pid \in [1..n -> OppPartnerIds],
              sty \in [1..n -> OppStyles]} : n \in 0..MaxOppRows}

OppPartnerTables ==
    {<<[partner_id |-> 1, account_number |-> 1, is_fraudulent |-> f1],
       [partner_id |-> 2, account_number |-> 2, is_fraudulent |-> f2]>> :
        f1 \in BOOLEAN, f2 \in BOOLEAN}

OppositeInit ==
    /\ inj_args \in [trades : OppTradeTables, partners : OppPartnerTables,
                     prob : OppProbabilities]
    /\ inj_result = None
    /\ ParserIdle
    /\ SelectIdle
    /\ PipelineIdle
    /\ ValidateIdle
    /\ LoadIdle

CallInjectOppositeTrading ==
    /\ inj_result = None
    /\ \E tie \in TieOrders :
       \E draw \in [{pr[1] : pr \in Pairs(inj_args.trades, inj_args.partners, tie)}
                        -> PairDrawsAt(inj_args.prob)] :
           inj_result' = [trades |-> InjectOppositeTrading(inj_args.trades,
                                                           inj_args.partners, tie, draw)]
    /\ UNCHANGED <<inj_args, issues, parserVars, selectVars, loadVars, pipelineVars>>

OppositeNext == CallInjectOppositeTrading

SpecOpposite == OppositeInit /\ [][OppositeNext]_vars

\* the pairs (first, second) of returned rows that carry the signature
SignaturePairs(res, ptab) ==
    {pr \in {i \in 1..Len(res) : res[i].is_opposite_trade}
              \X {i \in 1..Len(res) : res[i].is_opposite_trade} :
        /\ pr[1] # pr[2]
        /\ res[pr[1]].partner_id = res[pr[2]].partner_id
        /\ \E p \in 1..Len(ptab) :
              ptab[p].partner_id = res[pr[1]].partner_id /\ ptab[p].is_fraudulent
        /\ res[pr[1]].instrument = res[pr[2]].instrument
        /\ {res[pr[1]].direction, res[pr[2]].direction} = {"BUY", "SELL"}
        /\ res[pr[2]].timestamp - res[pr[1]].timestamp \in 1..60
        /\ res[pr[1]].is_fraudulent /\ res[pr[2]].is_fraudulent}

FourTradeCase ==
    /\ inj_args # None
    /\ inj_args.prob = 100
    /\ Len(inj_args.trades) = 4
    /\ Cardinality({p \in 1..2 : inj_args.partners[p].is_fraudulent}) = 1
    /\ \A i \in 1..4 : \E p \in 1..2 :
          /\ inj_args.partners[p].is_fraudulent
          /\ inj_args.partners[p].partner_id = inj_args.trades[i].partner_id
    /\ \A i, j \in 1..4 : i # j => inj_args.trades[i].timestamp # inj_args.trades[j].timestamp

NumOpposite == Cardinality({i \in 1..Len(inj_result.trades) : inj_result.trades[i].is_opposite_trade})

\* C14 (as stated): a single fraudulent partner with exactly 4 trades at
\* distinct timestamps and probability 1.0: exactly 2 trades are flagged.
C14_ExactlyTwoFlagged ==
    (FourTradeCase /\ inj_result # None) => NumOpposite = 2

\* C14 (amended): in that case both pairs are rewritten and exactly 4 trades
\* have is_opposite_trade = true.
C14_ExactlyFourFlagged ==
    (FourTradeCase /\ inj_result # None) => NumOpposite = 4

C14_Witness == FourTradeCase /\ inj_result # None /\ NumOpposite = 4

\* ------------------------------------------------ inject_bonus_abuse alone
TwelveClients == 12
\* how many distinct clients partner 1 and partner 2 have in the trades
BonusClientCounts == {1, 2, TwelveClients} \X {0, 2}

\* the trades inject_opposite_trading hands over: one untouched trade per
\* client (clients 1..c1 under partner 1, the next c2 under partner 2) and,
\* with `again`, a second trade of client 1
BonusTradeTable(c1, c2, again) ==
    LET row(i, cid, pid) ==
            [trade_id |-> i, timestamp |-> 60 * i, client_id |-> cid, partner_id |-> pid,
             instrument |-> "GBPJPY", direction |-> "SELL", trade_volume |-> 10000,
             is_fraudulent |-> FALSE, is_opposite_trade |-> FALSE]
        firsts == [i \in 1..(c1 + c2) |-> row(i, i, IF i <= c1 THEN 1 ELSE 2)]
    IN IF again THEN firsts \o <<row(c1 + c2 + 1, 1, 1)>> ELSE firsts

BonusInit ==
    /\ \E cc \in BonusClientCounts : \E again \in BOOLEAN :
       \E ptab \in OppPartnerTables : \E h \in StrHashes :
            inj_args = [trades |-> BonusTradeTable(cc[1], cc[2], again),
                        partners |-> ptab, str_hash |-> h]
    /\ inj_result = None
    /\ ParserIdle
    /\ SelectIdle
    /\ PipelineIdle
    /\ ValidateIdle
    /\ LoadIdle

CallInjectBonusAbuse ==
    /\ inj_result = None
    /\ inj_result' \in InjectBonusAbuse(inj_args.trades, inj_args.partners,
                                        inj_args.str_hash)
    /\ UNCHANGED <<inj_args, issues, parserVars, selectVars, loadVars, pipelineVars>>

BonusNext == CallInjectBonusAbuse

SpecBonus == BonusInit /\ [][BonusNext]_vars

\* partner 1 is the only fraudulent partner, hence the one sampled, and has
\* exactly 12 distinct clients
TwelveClientCase ==
    /\ inj_args # None
    /\ inj_args.partners[1].is_fraudulent
    /\ ~inj_args.partners[2].is_fraudulent
    /\ Cardinality({inj_args.trades[i].client_id :
                      i \in {j \in 1..Len(inj_args.trades) :
                               inj_args.trades[j].partner_id = 1}}) = TwelveClients

\* the rows appended for partner 1
NewTrades ==
    {i \in (Len(inj_args.trades) + 1)..Len(inj_result.trades) :
        inj_result.trades[i].partner_id = 1}

NewWithdrawals ==
    {i \in 1..Len(inj_result.withdrawals) : inj_result.withdrawals[i].partner_id = 1}

AllNewFlagged ==
    /\ \A i \in NewTrades : inj_result.trades[i].is_bonus_abuse
    /\ \A i \in NewWithdrawals : inj_result.withdrawals[i].is_bonus_abuse

\* C15 (as stated): for a sampled partner with exactly 12 distinct clients
\* every outcome appends exactly 12 trades and 12 withdrawals, all flagged.
C15_ExactlyTwelveRows ==
    (TwelveClientCase /\ inj_result # None) =>
        /\ Cardinality(NewTrades) = TwelveClients
        /\ Cardinality(NewWithdrawals) = TwelveClients
        /\ AllNewFlagged

\* C15 (amended): the number of appended trades is min(d, 12) for the drawn
\* d in 10..15, that is 10, 11 or 12, and as many withdrawals are appended.
C15_TenToTwelveRows ==
    (TwelveClientCase /\ inj_result # None) =>
        /\ Cardinality(NewTrades) \in 10..TwelveClients
        /\ Cardinality(NewWithdrawals) = Cardinality(NewTrades)
        /\ AllNewFlagged

\* an outcome with 10 appended rows
C15_Witness ==
    /\ TwelveClientCase
    /\ inj_result # None
    /\ Cardinality(NewTrades) = 10
    /\ Cardinality(NewWithdrawals) = 10

\* ------------------------------------------------------- validate alone
MaxAuditRows == 1

\* output directories, sound or corrupted: partner 3 and client 3 are in no
\* partners.csv / clients.csv
AuditPartnerRows == [partner_id : {1, 2}, is_fraudulent : BOOLEAN]
AuditClientRows == [client_id : {EmptyStr, 1, 2}]
AuditTradeRows ==
    [trade_id : {1}, client_id : {1, 3}, partner_id : {1, 3}, trade_volume : {10000}]
AuditCommissionRows ==
    [commission_id : {1}, partner_id : {1, 2, 3}, trade_id : {1},
     commission_amount : {10000 * CommissionRatePct,
                          10000 * CommissionRatePct + MismatchTolerance + 1}]

ValidateInit ==
    /\ partners \in SeqsUpTo(AuditPartnerRows, MaxAuditRows + 1)
    /\ clients \in SeqsUpTo(AuditClientRows, MaxAuditRows)
    /\ trades \in SeqsUpTo(AuditTradeRows, MaxAuditRows)
    /\ commissions \in SeqsUpTo(AuditCommissionRows, MaxAuditRows)
    /\ issues = None
    /\ str_hash = None
    /\ report = <<>>
    /\ trans_df = <<>>
    /\ top_n = 0
    /\ raw_missing = {}
    /\ kumo_export = None
    /\ stage = "idle"
    /\ fraud_rings = <<>>
    /\ referrals = <<>>
    /\ withdrawals = <<>>
    /\ ParserIdle
    /\ SelectIdle
    /\ InjectIdle
    /\ LoadIdle

CallValidate ==
    /\ issues = None
    /\ issues' = [findings |-> Validate(partners, clients, trades, commissions)]
    /\ UNCHANGED <<parserVars, selectVars, loadVars, pipelineVars, injectVars>>

ValidateNext == CallValidate

SpecValidate == ValidateInit /\ [][ValidateNext]_vars

PartnerIds == {partners[i].partner_id : i \in 1..Len(partners)}

\* C18: when a Commission row's partner_id is the partner_id of no Partner
\* row, validate returns a non-empty list with a finding that holds that
\* id; validate changes none of the tables.
C18_OrphanCommissionPartnerReported ==
    /\ [](issues # None =>
            \A i \in 1..Len(commissions) :
                commissions[i].partner_id \notin PartnerIds =>
                    /\ issues.findings # <<>>
                    /\ \E f \in 1..Len(issues.findings) :
                          /\ issues.findings[f].kind = "orphan_partner_ids"
                          /\ commissions[i].partner_id \in issues.findings[f].ids)
    /\ [][issues' # issues => UNCHANGED fileVars]_vars

\* validate has run on a directory whose commission names partner 3
C18_Witness ==
    /\ issues # None
    /\ Len(partners) = 2
    /\ \E i \in 1..Len(commissions) : commissions[i].partner_id = 3

\* C19: when a Trade row's partner_id is the partner_id of no Partner row
\* while every Commission partner id is valid, validate returns a finding
\* that reports the orphan trade partner id; and a Trade row whose client_id
\* is in no Client row yields a finding.
C19_OrphanTradeKeysReported ==
    issues # None =>
        /\ (/\ \A i \in 1..Len(commissions) : commissions[i].partner_id \in PartnerIds
            /\ \E j \in 1..Len(trades) : trades[j].partner_id \notin PartnerIds)
             => \E j \in 1..Len(trades) : \E f \in 1..Len(issues.findings) :
                   /\ trades[j].partner_id \notin PartnerIds
                   /\ issues.findings[f].kind = "orphan_partner_ids"
                   /\ trades[j].partner_id \in issues.findings[f].ids
        /\ (\E j \in 1..Len(trades) :
                \A c \in 1..Len(clients) : clients[c].client_id # trades[j].client_id)
             => \E f \in 1..Len(issues.findings) :
                   issues.findings[f].kind = "orphan_client_count"

\* C20: when the built Partner table has no fraudulent partner,
\* run_injection completes without raising, leaving the trades as they were
\* apart from the flag columns and the withdrawals empty.
C20_NoFraudPartnerInjectionCompletes ==
    [][(stage = "transformed" /\ FraudPartnerIds(partners) = <<>>) =>
          /\ stage' = "injected"
          /\ Len(trades') = Len(trades)
          /\ withdrawals' = <<>>]_vars

\* ------------------------------------------- claims on the injected tables
\* the Commission row of trade row t (every built trade has exactly one)
CommissionOf(t) ==
    commissions[CHOOSE k \in 1..Len(commissions) : commissions[k].trade_id = t.trade_id]

\* C21: across injection the is_fraudulent flag of a Trade row is never
\* demoted (a row that was fraudulent is still there, under the same trade_id,
\* and still fraudulent), and in the injected table every trade flagged
\* is_opposite_trade or is_bonus_abuse is fraudulent.
C21_FraudFlagNeverDemoted ==
    /\ [](stage = "injected" =>
            \A i \in 1..Len(trades) :
                (trades[i].is_opposite_trade \/ trades[i].is_bonus_abuse)
                    => trades[i].is_fraudulent)
    /\ [][\A i \in 1..Len(trades) :
            trades[i].is_fraudulent =>
                \E j \in 1..Len(trades') :
                    /\ trades'[j].trade_id = trades[i].trade_id
                    /\ trades'[j].is_fraudulent]_vars

\* an injected table with a promoted pair (its commission still carries the
\* flag the trade was built with), a deposit trade, and a fraudulent trade
\* that no pattern touched
C21_Witness ==
    /\ stage = "injected"
    /\ \E i \in 1..Len(trades) :
          /\ trades[i].is_opposite_trade
          /\ ~CommissionOf(trades[i]).is_fraudulent
    /\ \E i \in 1..Len(trades) : trades[i].is_bonus_abuse

\* C22: once the table builder has written them, the Partner and the Client
\* table are never changed: every step of run_injection, run_export and
\* validate leaves both tables as they were.
C22_PartnersAndClientsFrozen ==
    [][stage \notin {"start", "parsed"} => UNCHANGED <<partners, clients>>]_vars

\* a validated run whose injection appended trades and whose export and
\* findings exist, over non-empty Partner and Client tables
C22_Witness ==
    /\ stage = "validated"
    /\ partners # <<>>
    /\ clients # <<>>
    /\ Len(trades) > Len(commissions)
    /\ kumo_export # None
    /\ issues # None

\* the step of main() after each position
StageOrder ==
    {<<"start", "parsed">>, <<"parsed", "transformed">>,
     <<"transformed", "injected">>, <<"injected", "exported">>,
     <<"exported", "validated">>,
     <<"start", "failed">>, <<"parsed", "failed">>, <<"transformed", "failed">>}

HasColumn(tab, col) == \A i \in 1..Len(tab) : col \in DOMAIN tab[i]

\* C23: the stages run in the order parse, transform, inject, export,
\* validate, each only after the one before it wrote its output (nothing of a
\* later stage exists before its turn, and the output of a finished stage
\* does); a stage that fails ends the run: no step follows it; and a raw file
\* that is missing stays missing, the stage that needs it fails, and nothing
\* that is derived from it is ever produced.
C23_StagesInOrderAndFailureIsFinal ==
    /\ [](/\ stage \in {"start", "parsed"} =>
               /\ partners = <<>> /\ clients = <<>> /\ trades = <<>>
               /\ commissions = <<>> /\ referrals = <<>>
          /\ stage \in {"start", "parsed", "transformed"} =>
               /\ withdrawals = <<>>
               /\ trades = <<>> \/ ~HasColumn(trades, "is_bonus_abuse")
          /\ stage \in {"start", "parsed", "transformed", "injected", "failed"} =>
               kumo_export = None
          /\ stage # "validated" => issues = None
          /\ stage \in {"injected", "exported", "validated"} =>
               /\ trades # <<>>
               /\ HasColumn(trades, "is_bonus_abuse")
               /\ Len(commissions) > 0
          /\ stage \in {"exported", "validated"} =>
               /\ kumo_export # None
               /\ kumo_export.trades = ExportTrades(trades)
          /\ stage = "validated" => issues # None
          /\ "patterns" \in raw_missing =>
               /\ stage \in {"start", "failed"}
               /\ fraud_rings = <<>>
          /\ "transactions" \in raw_missing =>
               /\ stage \in {"start", "parsed", "failed"}
               /\ partners = <<>> /\ clients = <<>> /\ trades = <<>>
               /\ commissions = <<>> /\ referrals = <<>>)
    /\ [][/\ <<stage, stage'>> \in StageOrder
          /\ UNCHANGED inputVars]_vars

\* a run whose report was parsed and saved and whose transform stage then
\* failed on the missing ledger
C23_Witness ==
    /\ stage = "failed"
    /\ raw_missing = {"transactions"}
    /\ fraud_rings # <<>>
    /\ partners = <<>>

\* ------------------------------------------- claims on Pattern A's frame
\* the orders of the rows I of tab by non-decreasing timestamp
TimeOrders(tab, I) ==
    {ord \in OrderedSamples(I, Cardinality(I)) :
        \A k \in 1..(Len(ord) - 1) : tab[ord[k]].timestamp <= tab[ord[k + 1]].timestamp}

\* row `after` is row `before` with is_opposite_trade = false added
KeptByPatternA(before, after) ==
    /\ after.trade_id = before.trade_id
    /\ after.client_id = before.client_id
    /\ after.partner_id = before.partner_id
    /\ after.timestamp = before.timestamp
    /\ after.instrument = before.instrument
    /\ after.direction = before.direction
    /\ after.trade_volume = before.trade_volume
    /\ after.is_fraudulent = before.is_fraudulent
    /\ after.is_opposite_trade = FALSE

OppFlagged == {i \in 1..Len(inj_result.trades) : inj_result.trades[i].is_opposite_trade}

\* C24: Pattern A changes only trades of fraudulent partners, and only in
\* consecutive non-overlapping pairs (1st with 2nd, 3rd with 4th, ...) of a
\* partner's trades in the order of their timestamps before the injection.
\* Every other row (the odd last trade, the rows of a rejected pair, of a
\* partner with fewer than 2 trades, of a partner that is not fraudulent)
\* keeps timestamp, instrument, direction, trade_volume and is_fraudulent
\* and gets is_opposite_trade = false; the rows of a rejected pair are in no
\* other pair.
C24_OnlyAcceptedPairsChange ==
    inj_result # None =>
        /\ Len(inj_result.trades) = Len(inj_args.trades)
        /\ \A i \in 1..Len(inj_args.trades) :
              i \notin OppFlagged =>
                  KeptByPatternA(inj_args.trades[i], inj_result.trades[i])
        /\ \A p \in 1..Len(inj_args.partners) :
              LET rows == {i \in 1..Len(inj_args.trades) :
                             inj_args.trades[i].partner_id = inj_args.partners[p].partner_id}
              IN IF ~inj_args.partners[p].is_fraudulent
                 THEN OppFlagged \cap rows = {}
                 ELSE \E ord \in TimeOrders(inj_args.trades, rows) :
                      \E K \in SUBSET (1..(Len(ord) \div 2)) :
                          OppFlagged \cap rows =
                              UNION {{ord[2 * k - 1], ord[2 * k]} : k \in K}

\* a fraudulent partner with three trades, of which the first two were
\* rewritten, next to a trade of a partner that is not fraudulent
C24_Witness ==
    /\ inj_result # None
    /\ Len(inj_args.trades) = 4
    /\ Cardinality(OppFlagged) = 2
    /\ \E p, q \in 1..Len(inj_args.partners) :
          /\ inj_args.partners[p].is_fraudulent
          /\ ~inj_args.partners[q].is_fraudulent
          /\ Cardinality({i \in 1..4 : inj_args.trades[i].partner_id
                                          = inj_args.partners[p].partner_id}) = 3
          /\ \E i \in 1..4 : inj_args.trades[i].partner_id = inj_args.partners[q].partner_id

\* a fraudulent partner with four trades, of which one pair was rejected
C24_WitnessRejectedPair ==
    /\ inj_result # None
    /\ Len(inj_args.trades) = 4
    /\ Cardinality(OppFlagged) = 2
    /\ \E p \in 1..Len(inj_args.partners) :
          /\ inj_args.partners[p].is_fraudulent
          /\ \A i \in 1..4 : inj_args.trades[i].partner_id = inj_args.partners[p].partner_id

\* ------------------------------------------- claims on Pattern B's frame
\* the rows appended for partner pid, and the distinct clients its trades had
AppendedFor(pid) ==
    {i \in (Len(inj_args.trades) + 1)..Len(inj_result.trades) :
        inj_result.trades[i].partner_id = pid}

ClientsBefore(pid) ==
    {inj_args.trades[i].client_id :
        i \in {j \in 1..Len(inj_args.trades) : inj_args.trades[j].partner_id = pid}}

\* pid is the only fraudulent partner, hence the one that is sampled
OnlyFraudPartner(pid) ==
    \A p \in 1..Len(inj_args.partners) :
        inj_args.partners[p].is_fraudulent <=> inj_args.partners[p].partner_id = pid

\* C25: for a partner Pattern B selected, with n distinct clients in the
\* trade table: nothing is appended when n < 2; otherwise between min(10, n)
\* and min(15, n) trades are appended, each of a different client that the
\* partner already had.  Every appended trade has one Withdrawal row with
\* the same client_id and partner_id, the deposit amount, and the deposit's
\* timestamp plus the fixed delay.  No existing Trade row is modified.
C25_BonusRowsPerPartner ==
    inj_result # None =>
        LET before == inj_args.trades
            after == inj_result.trades
            added == Len(after) - Len(before)
        IN /\ added >= 0
           /\ \A i \in 1..Len(before) :
                 /\ after[i].trade_id = before[i].trade_id
                 /\ after[i].timestamp = before[i].timestamp
                 /\ after[i].client_id = before[i].client_id
                 /\ after[i].partner_id = before[i].partner_id
                 /\ after[i].instrument = before[i].instrument
                 /\ after[i].direction = before[i].direction
                 /\ after[i].trade_volume = before[i].trade_volume
                 /\ after[i].is_fraudulent = before[i].is_fraudulent
                 /\ after[i].is_opposite_trade = before[i].is_opposite_trade
           /\ \A p \in 1..Len(inj_args.partners) :
                 LET pid == inj_args.partners[p].partner_id
                     n == Cardinality(ClientsBefore(pid))
                     m == Cardinality(AppendedFor(pid))
                 IN /\ (n < 2 \/ ~inj_args.partners[p].is_fraudulent) => m = 0
                    /\ m # 0 => m \in Min2(10, n)..Min2(15, n)
                    /\ (OnlyFraudPartner(pid) /\ n >= 2) => m # 0
                    /\ \A i \in AppendedFor(pid) : after[i].client_id \in ClientsBefore(pid)
                    /\ \A i, j \in AppendedFor(pid) :
                          i # j => after[i].client_id # after[j].client_id
           /\ Len(inj_result.withdrawals) = added
           /\ \A k \in 1..added :
                 LET t == after[Len(before) + k]
                     w == inj_result.withdrawals[k]
                 IN /\ w.client_id = t.client_id
                    /\ w.partner_id = t.partner_id
                    /\ w.amount = t.trade_volume
                    /\ w.timestamp = t.timestamp + BonusAbuseWithdrawDelay

\* the only fraudulent partner has three trades of two distinct clients and
\* got two deposits, next to a partner with clients that got none
C25_Witness ==
    /\ inj_result # None
    /\ OnlyFraudPartner(1)
    /\ Cardinality(ClientsBefore(1)) = 2
    /\ Cardinality({j \in 1..Len(inj_args.trades) : inj_args.trades[j].partner_id = 1}) = 3
    /\ Cardinality(AppendedFor(1)) = 2
    /\ Len(inj_result.withdrawals) = 2
    /\ Cardinality(ClientsBefore(2)) = 2

\* a fraudulent partner with a single client, for which nothing is appended
C25_WitnessSingleClient ==
    /\ inj_result # None
    /\ OnlyFraudPartner(1)
    /\ Cardinality(ClientsBefore(1)) = 1
    /\ inj_result.withdrawals = <<>>

\* ------------------------------------------- claims on the selection order
\* the number of distinct senders that sent to receiver r
DistinctSenders(df, r) ==
    Cardinality({a \in {df[i].sender_account : i \in 1..Len(df)} :
                    \E i \in 1..Len(df) :
                        df[i].sender_account = a /\ df[i].receiver_account = r})

SelLegitPicks == SelPartnerSet \ sel_result.selected_fraud

\* C26: with in-degree the number of distinct senders of a receiver, the
\* returned fraud hubs are ring hubs among the receivers and none of them
\* has a smaller in-degree than a receiver hub that was not selected; the
\* other returned accounts are receivers that are no ring hub and none of
\* them has a smaller in-degree than a non-hub receiver that was not
\* selected; no ring hub outside the returned fraud-hub set is in the
\* partner set.
C26_SelectionByInDegree ==
    SelReturned =>
        LET df == sel_args.trans_df
            hubs == FraudHubs(sel_args.fraud_rings)
            recvHubs == hubs \cap Receivers(df)
            nonHubs == Receivers(df) \ hubs
            fraud == sel_result.selected_fraud
        IN /\ fraud \subseteq recvHubs
           /\ \A a \in fraud : \A b \in recvHubs \ fraud :
                 DistinctSenders(df, a) >= DistinctSenders(df, b)
           /\ SelLegitPicks \subseteq nonHubs
           /\ \A a \in SelLegitPicks : \A b \in nonHubs \ SelLegitPicks :
                 DistinctSenders(df, a) >= DistinctSenders(df, b)
           /\ SelPartnerSet \cap hubs \subseteq fraud

\* two receiver hubs of different in-degree, the one with the larger chosen
\* although its label is the greater; a non-hub receiver fills a slot
C26_Witness ==
    /\ SelReturned
    /\ \E a \in sel_result.selected_fraud :
       \E b \in ValidFraudHubs(sel_args.trans_df, sel_args.fraud_rings)
                    \ sel_result.selected_fraud :
          /\ DistinctSenders(sel_args.trans_df, a) > DistinctSenders(sel_args.trans_df, b)
          /\ a > b

\* two non-hub receivers of different in-degree and room for one
C26_WitnessLegit ==
    /\ SelReturned
    /\ \E a \in SelLegitPicks :
       \E b \in (Receivers(sel_args.trans_df) \ FraudHubs(sel_args.fraud_rings))
                    \ SelLegitPicks :
          /\ DistinctSenders(sel_args.trans_df, a) > DistinctSenders(sel_args.trans_df, b)
          /\ a > b

\* ------------------------------------ claims on the commissions' other columns
TablesWritten == stage \in {"transformed", "injected", "exported", "validated"}

\* C27: every Commission row's timestamp is its Trade row's timestamp plus
\* the commission delay, right after the tables are built and in every later
\* state, also after Pattern A moved the timestamp of a pair's second trade.
C27_CommissionTimestampFollowsTrade ==
    TablesWritten =>
        \A k \in 1..Len(commissions) : \A j \in 1..Len(trades) :
            trades[j].trade_id = commissions[k].trade_id =>
                commissions[k].timestamp = trades[j].timestamp + CommissionDelay

\* C30: every Commission row's is_fraudulent equals its Trade row's
\* is_fraudulent, after the tables are built and also after injection
\* promoted trades to fraudulent.
C30_CommissionFraudFlagFollowsTrade ==
    TablesWritten =>
        \A k \in 1..Len(commissions) : \A j \in 1..Len(trades) :
            trades[j].trade_id = commissions[k].trade_id =>
                commissions[k].is_fraudulent = trades[j].is_fraudulent

\* ------------------------------------- the sampling of Pattern B alone
MaxSamplePartners == 7

\* partner tables of up to MaxSamplePartners rows with any fraud flags
SamplePartnerTables ==
    UNION {{[i \in 1..n |-> [partner_id |-> i, account_number |-> i,
                             is_fraudulent |-> f[i]]] : f \in [1..n -> BOOLEAN]} :
             n \in 0..MaxSamplePartners}

SampleInit ==
    /\ inj_args \in [partners : SamplePartnerTables]
    /\ inj_result = None
    /\ ParserIdle
    /\ SelectIdle
    /\ PipelineIdle
    /\ ValidateIdle
    /\ LoadIdle

\* inject_bonus_abuse up to abuse_partners: with no fraudulent partner it
\* returns before it samples
CallSampleAbusePartners ==
    /\ inj_result = None
    /\ \E fraud \in {FraudPartnerIds(inj_args.partners)} :
          IF fraud = <<>>
          THEN inj_result' = [abuse_partners |-> <<>>]
          ELSE \E sample \in AbusePartnerSamples(fraud) :
                  inj_result' = [abuse_partners |-> sample]
    /\ UNCHANGED <<inj_args, issues, parserVars, selectVars, loadVars, pipelineVars>>

SampleNext == CallSampleAbusePartners

SpecSample == SampleInit /\ [][SampleNext]_vars

\* the number F of fraudulent partners handed in
NumFraudGiven ==
    Cardinality({i \in 1..Len(inj_args.partners) : inj_args.partners[i].is_fraudulent})

SampledAreDistinctFraudPartners ==
    /\ \A k \in 1..Len(inj_result.abuse_partners) :
          \E i \in 1..Len(inj_args.partners) :
              /\ inj_args.partners[i].partner_id = inj_result.abuse_partners[k]
              /\ inj_args.partners[i].is_fraudulent
    /\ \A k, l \in 1..Len(inj_result.abuse_partners) :
          k # l => inj_result.abuse_partners[k] # inj_result.abuse_partners[l]

\* C29 (as stated): of F fraudulent partners floor(0.30 x F) are sampled for
\* Pattern B, and the sampled partners are distinct fraudulent partners.
C29_SampledIsFloorOfThirtyPercent ==
    inj_result # None =>
        /\ Len(inj_result.abuse_partners) = (NumFraudGiven * 3) \div 10
        /\ SampledAreDistinctFraudPartners

\* C29 (amended): of F >= 1 fraudulent partners max(1, floor(0.30 x F)) are
\* sampled, so one partner is sampled when F is 1, 2 or 3; with F = 0 none
\* is; the sampled partners are distinct fraudulent partners.
C29_SampledIsFloorButAtLeastOne ==
    inj_result # None =>
        /\ Len(inj_result.abuse_partners) =
              IF NumFraudGiven = 0 THEN 0
              ELSE IF (NumFraudGiven * 3) \div 10 >= 1
                   THEN (NumFraudGiven * 3) \div 10 ELSE 1
        /\ SampledAreDistinctFraudPartners

\* two fraudulent partners, of which one was sampled
C29_Witness ==
    /\ inj_result # None
    /\ NumFraudGiven = 2
    /\ Len(inj_result.abuse_partners) = 1

\* seven fraudulent partners, of which two were sampled
C29_WitnessSeven ==
    /\ inj_result # None
    /\ NumFraudGiven = 7
    /\ Len(inj_result.abuse_partners) = 2

\* ------------------------------------------------- load_transactions alone
MaxLoadRows == 3

\* the raw ledger rows: two timestamps, laundering or not
LoadLedgerRows ==
    {LedgerRow(ts, 3, 1, 10000, fl) : ts \in LedgerTimes, fl \in BOOLEAN}

\* the `sample` argument as main() passes it: None, or a positive size
SampleArgs ==
    {[given |-> FALSE, n |-> 0]} \cup {[given |-> TRUE, n |-> k] : k \in 1..MaxLoadRows}

RECURSIVE SortLedger(_, _, _)
\* sort_values("Timestamp").reset_index(drop=True) of the rows I of tab
SortLedger(tab, I, tie) ==
    IF I = {} THEN <<>>
    ELSE LET m == CHOOSE x \in I : \A y \in I :
                     \/ tab[x].Timestamp < tab[y].Timestamp
                     \/ tab[x].Timestamp = tab[y].Timestamp /\ tie * x <= tie * y
         IN <<tab[m]>> \o SortLedger(tab, I \ {m}, tie)

\* load_transactions: the frames it can return for the ledger df
LoadTransactions(df, sample) ==
    IF sample.given /\ Len(df) > sample.n
    THEN LET fraud_df == SelectRows(df, {i \in 1..Len(df) : df[i].IsLaundering})
             legit == {i \in 1..Len(df) : ~df[i].IsLaundering}
             n_legit == sample.n - Len(fraud_df)
             legit_dfs ==
                IF n_legit > 0 /\ Cardinality(legit) > n_legit
                THEN {[k \in 1..n_legit |-> df[pick[k]]] :
                         pick \in OrderedSamples(legit, n_legit)}
                ELSE {SelectRows(df, legit)}
         IN {SortLedger(fraud_df \o legit_df, 1..Len(fraud_df \o legit_df), tie) :
                legit_df \in legit_dfs, tie \in TieOrders}
    ELSE {df}

LoadInit ==
    /\ load_args \in [ledger : SeqsUpTo(LoadLedgerRows, MaxLoadRows), sample : SampleArgs]
    /\ load_result = None
    /\ ParserIdle
    /\ SelectIdle
    /\ PipelineIdle
    /\ InjectIdle
    /\ ValidateIdle

CallLoadTransactions ==
    /\ load_result = None
    /\ \E out \in LoadTransactions(load_args.ledger, load_args.sample) :
          load_result' = [df |-> out]
    /\ UNCHANGED <<load_args, parserVars, selectVars, pipelineVars, injectVars, issues>>

LoadNext == CallLoadTransactions

SpecLoad == LoadInit /\ [][LoadNext]_vars

\* how often the row x occurs in the table tab
CountRows(tab, x) == Cardinality({i \in 1..Len(tab) : tab[i] = x})

\* C28: with a sample size smaller than the ledger, load_transactions keeps
\* every row whose laundering flag is 1, returns of the legitimate rows only
\* rows of the ledger, and returns at most `sample` rows; with no sampling,
\* or a ledger that is not larger than the sample size, it returns every
\* ledger row.
C28_SampleKeepsFraudWithinSize ==
    load_result # None =>
        IF load_args.sample.given /\ load_args.sample.n < Len(load_args.ledger)
        THEN /\ \A x \in LoadLedgerRows :
                   IF x.IsLaundering
                   THEN CountRows(load_result.df, x) = CountRows(load_args.ledger, x)
                   ELSE CountRows(load_result.df, x) <= CountRows(load_args.ledger, x)
             /\ Len(load_result.df) <= load_args.sample.n
        ELSE load_result.df = load_args.ledger

====
